---- MODULE Spec2Model ----
(***************************************************************************)
(* Model of the voice-app web client: the shared VoiceAPIClient            *)
(* (frontend/shared/api_client.js), the React components that use it      *)
(* (FileUpload, VCForm, VCPage, TTSForm, TTSPage, AudioPlayer) and the     *)
(* helpers of utils/helpers.js.                                            *)
(*                                                                         *)
(* Conventions.  A JavaScript value is a record [kind, n, s, b]; kind      *)
(* "absent" stands for a property an object does not have, so an object    *)
(* over a fixed universe of keys is a record of such values.  Numbers that *)
(* the code treats as floats (speed) are kept in tenths: 10 is 1.0.        *)
(***************************************************************************)
EXTENDS Integers, Sequences, FiniteSets, TLC

VARIABLES
  \* ---- a direct call of a public method of VoiceAPIClient ----
  cpc,        \* "idle" | "reading" | "fetching" | "settled"
  ccall,      \* the method called and its arguments
  cfetch,     \* the fetch(url, config) the call issued, if any
  coutcome,   \* how that fetch went (NoOutcome while it has not settled)
  cresult,    \* how the returned promise settled
  cdownload,  \* a downloadAudio call: its fetch, how it went, what it returned
  \* ---- pure functions applied to a drawn input ----
  ppc,        \* "input" | "done"
  pin,        \* the input drawn
  pout,       \* the outputs computed from it
  \* ---- FileUpload (inside VCForm) ----
  dragOver,
  selectedFile,
  \* ---- VCForm ----
  sourceFile,
  targetSpeaker,
  preservePitch,
  loading,
  profiles,
  profilesReq,  \* loadProfiles: "pending" until getProfiles() returns, then "done"
  vcCalls,      \* the voiceConversion calls in flight, oldest first
  \* ---- VCPage ----
  pageResult,
  pageError,
  \* ---- TTSForm (its loading, profiles and profilesReq are the ones above) ----
  text,
  speakerId,
  language,
  speed,
  ttsCalls,     \* the textToSpeech calls in flight, oldest first
  \* ---- the result surface of a page: AudioPlayer and the download action ----
  downloads,    \* the handleDownload calls awaiting downloadAudio, oldest first
  crashed,      \* a render threw: React has unmounted the page
  isPlaying,    \* AudioPlayer's state
  audioPlaying, \* whether the <audio> element is playing
  mounted,      \* whether the page, with the form in it, is mounted
  currentTime,  \* AudioPlayer's state, in whole seconds
  duration,     \* AudioPlayer's state, in whole seconds
  volume,       \* AudioPlayer's state, in tenths
  \* ---- what the last handler run did to the outside ----
  fx

uploadVars == <<dragOver, selectedFile>>
formVars   == <<sourceFile, targetSpeaker, preservePitch, loading, profiles,
                profilesReq, vcCalls>>
pageVars   == <<pageResult, pageError>>
vcVars     == <<uploadVars, formVars, pageVars, fx>>

ttsVars     == <<text, speakerId, language, speed, ttsCalls>>
playerVars  == <<currentTime, duration, volume>>
surfaceVars == <<downloads, crashed, isPlaying, audioPlaying, mounted, playerVars>>

clientVars == <<cpc, ccall, cfetch, coutcome, cresult, cdownload>>
pureVars   == <<ppc, pin, pout>>
vars       == <<clientVars, pureVars, vcVars, ttsVars, surfaceVars>>

----------------------------------------------------------------------------
(* JavaScript values                                                       *)

JsAbsent    == [kind |-> "absent",    n |-> 0, s |-> "", b |-> FALSE]
JsUndefined == [kind |-> "undefined", n |-> 0, s |-> "", b |-> FALSE]
JsNull      == [kind |-> "null",      n |-> 0, s |-> "", b |-> FALSE]
JsNaN       == [kind |-> "NaN",       n |-> 0, s |-> "", b |-> FALSE]
JsNum(x)    == [kind |-> "number",    n |-> x, s |-> "", b |-> FALSE]
JsStr(x)    == [kind |-> "string",    n |-> 0, s |-> x,  b |-> FALSE]
JsBool(x)   == [kind |-> "boolean",   n |-> 0, s |-> "", b |-> x]

\* ToBoolean: what `if (v)`, `!v` and `v || d` test.
Truthy(v) ==
  CASE v.kind = "number"  -> v.n # 0
    [] v.kind = "string"  -> v.s # ""
    [] v.kind = "boolean" -> v.b
    [] OTHER              -> FALSE

\* obj.key: a missing property reads as undefined.
Get(obj, key) == IF obj[key].kind = "absent" THEN JsUndefined ELSE obj[key]

\* a ?? d: only undefined and null give way to the default.
OrDefaultNullish(v, d) == IF v.kind \in {"undefined", "null"} THEN d ELSE v

\* a || d
OrDefault(v, d) == IF Truthy(v) THEN v ELSE d

\* { ...a, ...b } over the keys of a: the own properties of b win.
Spread(a, b) == [k \in DOMAIN a |-> IF b[k].kind # "absent" THEN b[k] ELSE a[k]]

----------------------------------------------------------------------------
(* VoiceAPIClient.constructor                                              *)

HeaderKeys == {"Content-Type", "User-Agent", "X-Token"}

defaultHeaders ==
  [k \in HeaderKeys |->
     CASE k = "Content-Type" -> JsStr("application/json")
       [] k = "User-Agent"   -> JsStr("VoiceApp-WebClient/1.0")
       [] OTHER              -> JsAbsent]

NoHeaders == [k \in HeaderKeys |-> JsAbsent]

\* A `headers` property: absent, undefined, or an object of header entries.
HdrAbsent    == [kind |-> "absent",    obj |-> NoHeaders]
HdrUndefined == [kind |-> "undefined", obj |-> NoHeaders]
HdrObject(h) == [kind |-> "object",    obj |-> h]

\* A string kept as its sequence of characters (a text to trim, a Base64
\* text), or the absence of one.
TextAbsent    == [kind |-> "absent", chars |-> <<>>]
JsText(chars) == [kind |-> "string", chars |-> chars]

\* A JSON payload over the keys the client ever writes.
EmptyPayload ==
  [text           |-> TextAbsent,
   speaker_id     |-> JsAbsent,
   language       |-> JsAbsent,
   speed          |-> JsAbsent,
   source_audio   |-> TextAbsent,
   target_speaker |-> JsAbsent,
   preserve_pitch |-> JsAbsent]

\* JSON.stringify(payload): a property whose value is undefined is left out
\* and NaN is written as null; everything else is written as it is.
Stringify(payload) ==
  [k \in DOMAIN payload |->
     IF payload[k].kind = "undefined" THEN [payload[k] EXCEPT !.kind = "absent"]
     ELSE IF payload[k].kind = "NaN" THEN [payload[k] EXCEPT !.kind = "null"]
     ELSE payload[k]]

\* A request body: absent, or the JSON text of a payload.
BodyAbsent     == [kind |-> "absent", json |-> EmptyPayload]
BodyJson(p)    == [kind |-> "json",   json |-> Stringify(p)]

\* An options object of request(): the keys the client ever reads or passes.
NoOptions == [headers |-> HdrAbsent, method |-> JsAbsent, body |-> BodyAbsent]

----------------------------------------------------------------------------
(* VoiceAPIClient.request                                                  *)

\* { ...this.defaultHeaders, ...options.headers }: spreading undefined adds
\* nothing.
mergedHeaders(options) ==
  HdrObject(IF options.headers.kind = "object"
              THEN Spread(defaultHeaders, options.headers.obj)
              ELSE defaultHeaders)

\* const config = { headers: {...}, ...options }
requestConfig(options) ==
  Spread([headers |-> mergedHeaders(options),
          method  |-> JsAbsent,
          body    |-> BodyAbsent], options)

\* A JSON object the backend may answer with, over the keys the client reads.
NoProfiles == [kind |-> "absent", items |-> <<>>]
JsonBody(err, url, profs) == [error |-> err, audio_url |-> url, profiles |-> profs]
ErrorBody(msg) == JsonBody(JsStr(msg), JsAbsent, NoProfiles)

\* response.ok
responseOk(status) == status >= 200 /\ status <= 299

\* The try block: what it returns, or the message of what it throws.
requestTry(outcome) ==
  IF outcome.kind = "reject"
    THEN [threw |-> TRUE, message |-> outcome.message, value |-> ErrorBody("")]
  ELSE IF ~responseOk(outcome.status)
    THEN [threw |-> TRUE,
          message |-> "HTTP " \o ToString(outcome.status) \o ": " \o outcome.statusText,
          value |-> ErrorBody("")]
  ELSE IF ~outcome.decodes
    THEN [threw |-> TRUE, message |-> outcome.message, value |-> ErrorBody("")]
  ELSE [threw |-> FALSE, message |-> "", value |-> outcome.body]

Resolved(v) == [state |-> "resolved", value |-> v]
Rejected(m) == [state |-> "rejected", value |-> ErrorBody(m)]
Pending     == [state |-> "pending",  value |-> ErrorBody("")]

\* A variant in which `return response.json()` is not awaited inside the
\* try block, so a decoding failure escapes the catch.
requestSettleNoAwait(outcome) ==
  LET t == requestTry(outcome) IN
  IF t.threw
    THEN IF outcome.kind = "response" /\ responseOk(outcome.status)
           THEN Rejected(t.message)
           ELSE Resolved(ErrorBody(t.message))
    ELSE Resolved(t.value)

\* How the promise request() returned settles, given how fetch went.
requestSettle(outcome) ==
  LET t == requestTry(outcome) IN
  IF t.threw THEN Resolved(ErrorBody(t.message)) ELSE Resolved(t.value)

----------------------------------------------------------------------------
(* VoiceAPIClient.textToSpeech                                             *)

\* An options argument: not passed (the default parameter {} applies) or an
\* object.
NoTtsOptions == [speakerId |-> JsAbsent, language |-> JsAbsent, speed |-> JsAbsent]
ArgAbsent(empty) == [kind |-> "absent", obj |-> empty]
ArgObject(o)     == [kind |-> "object", obj |-> o]

\* options = {}
defaultParam(arg, empty) == IF arg.kind = "absent" THEN empty ELSE arg.obj

\* const payload = { text, speaker_id: ..., language: ..., speed: ... }
ttsPayload(txt, optionsArg) ==
  LET options == defaultParam(optionsArg, NoTtsOptions) IN
  [EmptyPayload EXCEPT
     !.text       = JsText(txt),
     !.speaker_id = OrDefault(Get(options, "speakerId"), JsStr("default")),
     !.language   = OrDefault(Get(options, "language"), JsStr("zh")),
     !.speed      = OrDefault(Get(options, "speed"), JsNum(10))]

\* The options textToSpeech hands to request().
ttsRequestOptions(txt, optionsArg) ==
  [NoOptions EXCEPT !.method = JsStr("POST"),
                    !.body   = BodyJson(ttsPayload(txt, optionsArg))]

----------------------------------------------------------------------------
(* VoiceAPIClient.arrayBufferToBase64                                      *)

\* String.fromCharCode(code): the UTF-16 code unit, code modulo 2^16.
fromCharCode(code) == code % 65536

\* The same loop reading the bytes as signed 7-bit characters.
binaryStringAscii(bytes) == [i \in 1..Len(bytes) |-> fromCharCode(bytes[i] % 128)]

\* The loop: binary += String.fromCharCode(bytes[i]).
binaryString(bytes) == [i \in 1..Len(bytes) |-> fromCharCode(bytes[i])]

B64Alphabet ==
  << "A","B","C","D","E","F","G","H","I","J","K","L","M","N","O","P",
     "Q","R","S","T","U","V","W","X","Y","Z","a","b","c","d","e","f",
     "g","h","i","j","k","l","m","n","o","p","q","r","s","t","u","v",
     "w","x","y","z","0","1","2","3","4","5","6","7","8","9","+","/" >>

B64Char(i) == B64Alphabet[i + 1]

\* window.btoa on a binary string (every code unit at most 255): RFC 4648
\* Base64 with padding.
RECURSIVE btoa(_)
btoa(bin) ==
  IF Len(bin) = 0 THEN <<>>
  ELSE IF Len(bin) = 1 THEN
    << B64Char(bin[1] \div 4), B64Char((bin[1] % 4) * 16), "=", "=" >>
  ELSE IF Len(bin) = 2 THEN
    << B64Char(bin[1] \div 4),
       B64Char((bin[1] % 4) * 16 + bin[2] \div 16),
       B64Char((bin[2] % 16) * 4), "=" >>
  ELSE
    << B64Char(bin[1] \div 4),
       B64Char((bin[1] % 4) * 16 + bin[2] \div 16),
       B64Char((bin[2] % 16) * 4 + bin[3] \div 64),
       B64Char(bin[3] % 64) >> \o btoa(SubSeq(bin, 4, Len(bin)))

arrayBufferToBase64(buffer) == btoa(binaryString(buffer))

\* Standard Base64 decoding, as the receiving side does it.
B64Index(c) == CHOOSE i \in 0..63 : B64Alphabet[i + 1] = c

RECURSIVE b64decode(_)
b64decode(t) ==
  IF Len(t) = 0 THEN <<>>
  ELSE
    LET a == B64Index(t[1])
        b == B64Index(t[2])
        rest == b64decode(SubSeq(t, 5, Len(t)))
    IN IF t[3] = "=" THEN << a * 4 + b \div 16 >>
       ELSE LET c == B64Index(t[3]) IN
         IF t[4] = "=" THEN << a * 4 + b \div 16, (b % 16) * 16 + c \div 4 >>
         ELSE LET d == B64Index(t[4]) IN
           << a * 4 + b \div 16, (b % 16) * 16 + c \div 4, (c % 4) * 64 + d >> \o rest

----------------------------------------------------------------------------
(* VoiceAPIClient.voiceConversion                                          *)

\* A File: its MIME type, its size in bytes and (a sample of) its content;
\* NullFile is `null`.
NullFile == [present |-> FALSE, type |-> "", size |-> 0, bytes |-> <<>>]
File(t, sz, bs) == [present |-> TRUE, type |-> t, size |-> sz, bytes |-> bs]

NoVcOptions == [preservePitch |-> JsAbsent]

\* options.preservePitch === true: an omitted flag would read as false.
preservePitchFlagStrictTrue(options) == Get(options, "preservePitch") = JsBool(TRUE)

\* options.preservePitch !== false
preservePitchFlag(options) == Get(options, "preservePitch") # JsBool(FALSE)

\* The payload reader.onload builds from the bytes read.
vcPayload(bytes, target, optionsArg) ==
  LET options == defaultParam(optionsArg, NoVcOptions) IN
  [EmptyPayload EXCEPT
     !.source_audio   = JsText(arrayBufferToBase64(bytes)),
     !.target_speaker = target,
     !.preserve_pitch = JsBool(preservePitchFlag(options))]

vcRequestOptions(bytes, target, optionsArg) ==
  [NoOptions EXCEPT !.method = JsStr("POST"),
                    !.body   = BodyJson(vcPayload(bytes, target, optionsArg))]

----------------------------------------------------------------------------
(* VoiceAPIClient.getAudioUrl and VoiceAPIClient.downloadAudio             *)

\* A string argument that was not given, or a property read that found
\* nothing: undefined.
TextUndefined == [kind |-> "undefined", chars |-> << >>]

\* "http://localhost:8000", the default of the constructor's parameter.
DefaultBaseUrl ==
  << "h","t","t","p",":","/","/","l","o","c","a","l","h","o","s","t",":","8","0","0","0" >>

\* this.baseUrl = baseUrl.replace(/\/$/, ""): the last character is dropped
\* when it is a slash.
constructorBaseUrl(configured) ==
  IF configured # << >> /\ configured[Len(configured)] = "/"
    THEN SubSeq(configured, 1, Len(configured) - 1)
    ELSE configured

\* audioPath.startsWith("/")
startsWithSlash(chars) == chars # << >> /\ chars[1] = "/"

\* getAudioUrl with the test left out: the base is always put in front.
getAudioUrlAlwaysPrefixed(baseUrl, audioPath) ==
  IF audioPath.kind # "string" THEN [threw |-> TRUE, value |-> << >>]
  ELSE [threw |-> FALSE, value |-> baseUrl \o audioPath.chars]

\* getAudioUrl(audioPath): what it returns, or that it throws (startsWith
\* read from a value that is not a string is a TypeError).
getAudioUrl(baseUrl, audioPath) ==
  IF audioPath.kind # "string" THEN [threw |-> TRUE, value |-> << >>]
  ELSE IF startsWithSlash(audioPath.chars)
    THEN [threw |-> FALSE, value |-> baseUrl \o audioPath.chars]
  ELSE [threw |-> FALSE, value |-> audioPath.chars]

\* How a download may go: fetch rejects, or answers with a status; then
\* response.blob() resolves or rejects; then creating the object URL and the
\* link and clicking it goes through or throws.
DownloadOutcome(f, st, b, sv) == [fetch |-> f, status |-> st, blob |-> b, save |-> sv]

NoDownloadOutcome == DownloadOutcome("none", 0, FALSE, FALSE)

DownloadOutcomes ==
  { DownloadOutcome("reject", 0, FALSE, FALSE) }
  \cup { DownloadOutcome("response", st, b, sv) :
           st \in {200, 404, 500}, b \in BOOLEAN, sv \in BOOLEAN }

\* The try block without its `if (!response.ok)` test.
downloadTryCompletesAnyStatus(outcome) ==
  /\ outcome.fetch = "response"
  /\ outcome.blob
  /\ outcome.save

\* Whether the try block of downloadAudio runs through to `return true`.
downloadTryCompletes(outcome) ==
  /\ outcome.fetch = "response"
  /\ responseOk(outcome.status)
  /\ outcome.blob
  /\ outcome.save

\* What downloadAudio(audioUrl, filename) returns: everything, getAudioUrl
\* included, runs inside the try, and the catch returns false.
downloadAudio(baseUrl, audioUrl, outcome) ==
  IF getAudioUrl(baseUrl, audioUrl).threw THEN FALSE ELSE downloadTryCompletes(outcome)

----------------------------------------------------------------------------
(* FileUpload.validateFile                                                 *)

validTypes == {"audio/wav", "audio/mp3", "audio/ogg", "audio/m4a", "audio/flac"}

MaxFileSize == 50 * 1024 * 1024

TypeAlert == "Please select a valid audio file (WAV, MP3, OGG, M4A, FLAC)"
SizeAlert == "File size must be less than 50MB"

\* The size test written with >=.
sizeTooLargeInclusive(size) == size >= MaxFileSize

\* file.size > 50 * 1024 * 1024
sizeTooLarge(size) == size > MaxFileSize

\* validateFile without its size test.
validateFileTypeOnly(file) ==
  IF file.type \notin validTypes THEN [ok |-> FALSE, alerts |-> << TypeAlert >>]
  ELSE [ok |-> TRUE, alerts |-> <<>>]

\* What validateFile returns and the alerts it shows on the way.
validateFile(file) ==
  IF file.type \notin validTypes THEN [ok |-> FALSE, alerts |-> << TypeAlert >>]
  ELSE IF sizeTooLarge(file.size) THEN [ok |-> FALSE, alerts |-> << SizeAlert >>]
  ELSE [ok |-> TRUE, alerts |-> <<>>]

\* VoiceAPIClient.isValidAudioFile(file)
isValidAudioFile(file) ==
  file.type \in {"audio/wav", "audio/mp3", "audio/ogg", "audio/m4a"}

\* isValidAudioFile(file) of utils/helpers.js
helpersIsValidAudioFile(file) ==
  file.type \in {"audio/wav", "audio/mp3", "audio/ogg", "audio/m4a", "audio/flac"}

----------------------------------------------------------------------------
(* String.prototype.trim, on a text kept as its characters                 *)

WhiteSpace == {" ", "\t", "\n"}

RECURSIVE trimStart(_)
trimStart(chars) ==
  IF chars # <<>> /\ Head(chars) \in WhiteSpace THEN trimStart(Tail(chars)) ELSE chars

RECURSIVE trimEnd(_)
trimEnd(chars) ==
  IF chars # <<>> /\ chars[Len(chars)] \in WhiteSpace
    THEN trimEnd(SubSeq(chars, 1, Len(chars) - 1))
    ELSE chars

trim(chars) == trimEnd(trimStart(chars))

----------------------------------------------------------------------------
(* AudioPlayer.formatTime and helpers.formatDuration                       *)

\* A time value: a finite number of seconds kept in tenths (JsNum(657) is
\* 65.7), or NaN, Infinity, undefined, null.
JsInfinity == [kind |-> "infinity", n |-> 0, s |-> "", b |-> FALSE]

\* ToNumber, for the values a time may be: undefined is NaN and null is 0.
ToNumber(v) ==
  CASE v.kind = "undefined" -> JsNaN
    [] v.kind = "absent"    -> JsNaN
    [] v.kind = "null"      -> JsNum(0)
    [] OTHER                -> v

\* isNaN(v)
isNaN(v) == ToNumber(v).kind = "NaN"

\* v / 60 rounded down, as Math.floor(v / 60) gives it (a whole number, kept
\* as it is and not in tenths).
floorDiv60(v) ==
  LET x == ToNumber(v) IN
  IF x.kind = "number" THEN JsNum(x.n \div 600) ELSE x

\* Math.floor(v % 60): the remainder has the sign of the dividend, and the
\* remainder of Infinity is NaN.
floorRem60(v) ==
  LET x == ToNumber(v)
      rem == IF x.n >= 0 THEN x.n % 600 ELSE 0 - ((0 - x.n) % 600)
  IN IF x.kind = "number" THEN JsNum(rem \div 10)
     ELSE IF x.kind = "infinity" THEN JsNaN
     ELSE x

DigitChars == << "0", "1", "2", "3", "4", "5", "6", "7", "8", "9" >>

\* The decimal digits of a natural number.
RECURSIVE Digits(_)
Digits(n) ==
  IF n < 10 THEN << DigitChars[n + 1] >>
  ELSE Digits(n \div 10) \o << DigitChars[(n % 10) + 1] >>

\* Number.prototype.toString and the `${...}` of a whole number.
numberToString(x) ==
  CASE x.kind = "NaN"      -> << "N", "a", "N" >>
    [] x.kind = "infinity" -> << "I", "n", "f", "i", "n", "i", "t", "y" >>
    [] x.n < 0             -> << "-" >> \o Digits(0 - x.n)
    [] OTHER               -> Digits(x.n)

\* A padStart that pads nothing.
padStartNone(chars, targetLength, fill) == chars

\* String.prototype.padStart(targetLength, fill) for a one-character fill.
padStart(chars, targetLength, fill) ==
  IF Len(chars) >= targetLength THEN chars
  ELSE [i \in 1..(targetLength - Len(chars)) |-> fill] \o chars

ZeroTime == << "0", ":", "0", "0" >>

\* AudioPlayer.formatTime(time)
formatTime(time) ==
  IF isNaN(time) THEN ZeroTime
  ELSE LET minutes == floorDiv60(time)
           seconds == floorRem60(time)
       IN numberToString(minutes) \o << ":" >>
            \o padStart(numberToString(seconds), 2, "0")

\* helpers.formatDuration(seconds)
formatDuration(seconds) ==
  IF isNaN(seconds) THEN ZeroTime
  ELSE LET minutes == floorDiv60(seconds)
           remainingSeconds == floorRem60(seconds)
       IN numberToString(minutes) \o << ":" >>
            \o padStart(numberToString(remainingSeconds), 2, "0")

----------------------------------------------------------------------------
(* Inputs                                                                  *)

\* All sequences over S of length at most n.
SeqsUpTo(S, n) == UNION {[1..m -> S] : m \in 0..n}

\* How a fetch may go: a rejection (network failure), or a response with a
\* status whose body decodes as JSON or not.
FetchReject(m) ==
  [kind |-> "reject", message |-> m, status |-> 0, statusText |-> "",
   decodes |-> FALSE, body |-> ErrorBody("")]
FetchResponse(st, txt, body) ==
  [kind |-> "response", message |-> "", status |-> st, statusText |-> txt,
   decodes |-> TRUE, body |-> body]
FetchUndecodable(st, txt, m) ==
  [kind |-> "response", message |-> m, status |-> st, statusText |-> txt,
   decodes |-> FALSE, body |-> ErrorBody("")]

NoOutcome ==
  [kind |-> "none", message |-> "", status |-> 0, statusText |-> "",
   decodes |-> FALSE, body |-> ErrorBody("")]

Statuses    == {200, 201, 299, 300, 404, 500}
StatusTexts == {"", "Status"}

Profile(id) == [id |-> id]
ProfileList(items) == [kind |-> "array", items |-> items]

ResponseBodies ==
  { JsonBody(JsAbsent, JsStr("/outputs/vc_1.wav"), NoProfiles),
    JsonBody(JsStr("model not loaded"), JsAbsent, NoProfiles),
    JsonBody(JsStr(""), JsStr("/outputs/vc_1.wav"), NoProfiles),
    JsonBody(JsAbsent, JsAbsent, ProfileList(<< >>)),
    JsonBody(JsAbsent, JsAbsent, ProfileList(<< Profile("alice"), Profile("bob") >>)) }

FetchOutcomes ==
  { FetchReject(m) : m \in {"Failed to fetch"} }
  \cup { FetchResponse(st, txt, b) : st \in Statuses, txt \in StatusTexts, b \in ResponseBodies }
  \cup { FetchUndecodable(st, txt, "Unexpected end of JSON input") :
           st \in Statuses, txt \in StatusTexts }

\* Options a caller may hand to request().
CallerHeaders ==
  { HdrAbsent, HdrObject(NoHeaders),
    HdrObject([NoHeaders EXCEPT !["X-Token"] = JsStr("t")]),
    HdrObject([NoHeaders EXCEPT !["Content-Type"] = JsStr("text/plain")]),
    HdrObject([NoHeaders EXCEPT !["Content-Type"] = JsStr("text/plain"),
                                !["X-Token"] = JsStr("t")]) }

RequestOptions ==
  { [NoOptions EXCEPT !.headers = h, !.method = m] :
      h \in CallerHeaders, m \in {JsAbsent, JsStr("GET")} }

Endpoints == {"/healthz", "/api/v1/profiles"}

\* The ceiling on the length of a text: the textarea's maxLength.
MaxTextLength == 1000

\* A text of n characters.
TextOfLength(n) == [i \in 1..n |-> "a"]

\* Texts and options a caller may hand to textToSpeech(): blank ones, short
\* ones, one at the ceiling and one a character beyond it.
Texts ==
  { << >>, << " " >>, << " ", "\t", "\n" >>, << "h", "i" >>, << " ", "h", " " >>,
    TextOfLength(MaxTextLength), TextOfLength(MaxTextLength + 1) }

TtsOptionArgs ==
  { ArgAbsent(NoTtsOptions) }
  \cup { ArgObject([speakerId |-> sp, language |-> la, speed |-> sd]) :
           sp \in {JsAbsent, JsUndefined, JsNull, JsStr(""), JsStr("alice")},
           la \in {JsAbsent, JsStr(""), JsStr("en")},
           sd \in {JsAbsent, JsUndefined, JsNull, JsNaN, JsNum(0), JsNum(4), JsNum(5),
                   JsNum(10), JsNum(20), JsNum(21)} }

\* Files, targets and options a caller may hand to voiceConversion().
ClientFiles ==
  { File("audio/wav", 3, << 82, 73, 70 >>), File("audio/flac", 1, << 255 >>) }

VcOptionArgs ==
  { ArgAbsent(NoVcOptions) }
  \cup { ArgObject([preservePitch |-> v]) :
           v \in {JsAbsent, JsUndefined, JsNull, JsBool(TRUE), JsBool(FALSE),
                  JsNum(0), JsStr("false")} }

----------------------------------------------------------------------------
(* Direct calls of the client's public methods (it is exported as an SDK). *)

BaseUrl == "http://localhost:8000"

NoCall ==
  [op |-> "none", endpoint |-> "", options |-> NoOptions,
   text |-> << >>, ttsArg |-> ArgAbsent(NoTtsOptions),
   file |-> NullFile, target |-> JsUndefined, vcArg |-> ArgAbsent(NoVcOptions)]

NoFetch == [issued |-> FALSE, url |-> "", options |-> NoOptions,
            config |-> requestConfig(NoOptions)]

\* request(endpoint, options) up to its `await fetch(url, config)`.
issueFetch(endpoint, options) ==
  [issued |-> TRUE, url |-> BaseUrl \o endpoint, options |-> options,
   config |-> requestConfig(options)]

\* One call per behaviour: the client keeps no state between calls.
ClientRequest ==
  /\ cpc = "idle"
  /\ \E endpoint \in Endpoints, options \in RequestOptions :
       /\ ccall' = [NoCall EXCEPT !.op = "request", !.endpoint = endpoint,
                                  !.options = options]
       /\ cfetch' = issueFetch(endpoint, options)
  /\ cpc' = "fetching"
  /\ cresult' = Pending
  /\ UNCHANGED <<coutcome, cdownload, pureVars, vcVars, ttsVars, surfaceVars>>

ClientTextToSpeech ==
  /\ cpc = "idle"
  /\ \E txt \in Texts, arg \in TtsOptionArgs :
       /\ ccall' = [NoCall EXCEPT !.op = "textToSpeech", !.endpoint = "/api/v1/tts",
                                  !.text = txt, !.ttsArg = arg]
       /\ cfetch' = issueFetch("/api/v1/tts", ttsRequestOptions(txt, arg))
  /\ cpc' = "fetching"
  /\ cresult' = Pending
  /\ UNCHANGED <<coutcome, cdownload, pureVars, vcVars, ttsVars, surfaceVars>>

\* A voiceConversion that sends its request at once, before the file has
\* been read.
ClientVoiceConversionEager ==
  /\ cpc = "idle"
  /\ \E file \in ClientFiles, target \in {JsStr("alice"), JsStr("")},
        arg \in VcOptionArgs :
       /\ ccall' = [NoCall EXCEPT !.op = "voiceConversion", !.endpoint = "/api/v1/vc",
                                  !.file = file, !.target = target, !.vcArg = arg]
       /\ cfetch' = issueFetch("/api/v1/vc", vcRequestOptions(<< >>, target, arg))
  /\ cpc' = "reading"
  /\ cresult' = Pending
  /\ UNCHANGED <<coutcome, cdownload, pureVars, vcVars, ttsVars, surfaceVars>>

\* voiceConversion up to reader.readAsArrayBuffer(audioFile).
ClientVoiceConversion ==
  /\ cpc = "idle"
  /\ \E file \in ClientFiles, target \in {JsStr("alice"), JsStr("")},
        arg \in VcOptionArgs :
       ccall' = [NoCall EXCEPT !.op = "voiceConversion", !.endpoint = "/api/v1/vc",
                               !.file = file, !.target = target, !.vcArg = arg]
  /\ cfetch' = NoFetch
  /\ cpc' = "reading"
  /\ cresult' = Pending
  /\ UNCHANGED <<coutcome, cdownload, pureVars, vcVars, ttsVars, surfaceVars>>

\* reader.onload up to the `await this.request(...)`.
ClientReaderLoad ==
  /\ cpc = "reading"
  /\ cfetch' = issueFetch("/api/v1/vc",
                 vcRequestOptions(ccall.file.bytes, ccall.target, ccall.vcArg))
  /\ cpc' = "fetching"
  /\ UNCHANGED <<ccall, coutcome, cresult, cdownload, pureVars, vcVars, ttsVars, surfaceVars>>

\* reader.onerror
ClientReaderError ==
  /\ cpc = "reading"
  /\ cresult' = Rejected("File read failed")
  /\ cpc' = "settled"
  /\ UNCHANGED <<ccall, cfetch, coutcome, cdownload, pureVars, vcVars, ttsVars, surfaceVars>>

\* The fetch settles and request() returns; every caller hands the value on
\* unchanged (return await ..., resolve(result)).
ClientFetchSettle ==
  /\ cpc = "fetching"
  /\ \E outcome \in FetchOutcomes :
       /\ coutcome' = outcome
       /\ cresult' = requestSettle(outcome)
  /\ ccall' = ccall
  /\ cpc' = "settled"
  /\ UNCHANGED <<cfetch, cdownload, pureVars, vcVars, ttsVars, surfaceVars>>

\* healthCheck() and getProfiles(): request(endpoint) with no options.
ClientHealthCheck ==
  /\ cpc = "idle"
  /\ ccall' = [NoCall EXCEPT !.op = "healthCheck", !.endpoint = "/healthz"]
  /\ cfetch' = issueFetch("/healthz", NoOptions)
  /\ cpc' = "fetching"
  /\ cresult' = Pending
  /\ UNCHANGED <<coutcome, cdownload, pureVars, vcVars, ttsVars, surfaceVars>>

ClientGetProfiles ==
  /\ cpc = "idle"
  /\ ccall' = [NoCall EXCEPT !.op = "getProfiles", !.endpoint = "/api/v1/profiles"]
  /\ cfetch' = issueFetch("/api/v1/profiles", NoOptions)
  /\ cpc' = "fetching"
  /\ cresult' = Pending
  /\ UNCHANGED <<coutcome, cdownload, pureVars, vcVars, ttsVars, surfaceVars>>

\* Locators a caller may hand to downloadAudio().
DownloadArgs ==
  { TextUndefined, JsText(<< >>), JsText(<< "/", "a" >>), JsText(<< "a" >>) }

NoDownload ==
  [audioUrl |-> TextUndefined, fetched |-> FALSE, url |-> << >>,
   outcome |-> NoDownloadOutcome, returned |-> "none"]

\* downloadAudio up to `await fetch(fullUrl)`, or to the catch when
\* getAudioUrl throws.
ClientDownloadAudio ==
  /\ cpc = "idle"
  /\ \E audioUrl \in DownloadArgs :
       LET full == getAudioUrl(DefaultBaseUrl, audioUrl) IN
       /\ ccall' = [NoCall EXCEPT !.op = "downloadAudio"]
       /\ IF full.threw
            THEN /\ cdownload' = [NoDownload EXCEPT !.audioUrl = audioUrl,
                                                    !.returned = "false"]
                 /\ cpc' = "returned"
            ELSE /\ cdownload' = [NoDownload EXCEPT !.audioUrl = audioUrl,
                                                    !.fetched = TRUE,
                                                    !.url = full.value,
                                                    !.returned = "pending"]
                 /\ cpc' = "downloading"
  /\ UNCHANGED <<cfetch, coutcome, cresult, pureVars, vcVars, ttsVars, surfaceVars>>

\* The rest of downloadAudio once its fetch has settled.
ClientDownloadSettle ==
  /\ cpc = "downloading"
  /\ \E outcome \in DownloadOutcomes :
       cdownload' = [cdownload EXCEPT
                       !.outcome = outcome,
                       !.returned = IF downloadAudio(DefaultBaseUrl, cdownload.audioUrl, outcome)
                                      THEN "true" ELSE "false"]
  /\ cpc' = "returned"
  /\ UNCHANGED <<ccall, cfetch, coutcome, cresult, pureVars, vcVars, ttsVars, surfaceVars>>

----------------------------------------------------------------------------
(* Pure functions on drawn inputs                                          *)

MaxBytesLen == 4

SampleBytes == {0, 63, 64, 127, 128, 255}

PureFileTypes ==
  { "audio/wav", "audio/mp3", "audio/ogg", "audio/m4a", "audio/flac",
    "audio/mpeg", "audio/x-wav", "AUDIO/WAV", "text/plain", "" }

PureFileSizes ==
  { 0, 1, MaxFileSize - 1, MaxFileSize, MaxFileSize + 1, 2 * MaxFileSize }

MaxUrlLen == 3

\* Base URLs a client may be constructed with and locators getAudioUrl may
\* be given, over a letter and the slash.
PureBaseUrls == SeqsUpTo({"h", "/"}, MaxUrlLen)

PureAudioPaths ==
  { TextUndefined } \cup { JsText(cs) : cs \in SeqsUpTo({"a", "/"}, MaxUrlLen) }

MaxSeconds == 125

\* Times formatTime may be given: every whole number of seconds up to
\* MaxSeconds and some larger ones, times with a fraction, a negative one,
\* and the values that are not finite numbers.
PureTimes ==
  { JsNum(10 * t) : t \in 0..MaxSeconds }
  \cup { JsNum(10 * t) : t \in {599, 600, 3599, 3600, 3661, 36000} }
  \cup { JsNum(n) : n \in {5, 599, 657, 1199, -10} }
  \cup { JsUndefined, JsNaN, JsNull, JsInfinity }

NoInput ==
  [op |-> "none", file |-> NullFile, bytes |-> << >>, base |-> << >>,
   path |-> TextUndefined, time |-> JsUndefined]

PureInputs ==
  { [NoInput EXCEPT !.op = "validateFile", !.file = File(t, sz, << >>)] :
      t \in PureFileTypes, sz \in PureFileSizes }
  \cup { [NoInput EXCEPT !.op = "arrayBufferToBase64", !.bytes = bs] :
           bs \in SeqsUpTo(SampleBytes, MaxBytesLen) \cup [1..1 -> 0..255] }
  \cup { [NoInput EXCEPT !.op = "getAudioUrl", !.base = b, !.path = p] :
           b \in PureBaseUrls, p \in PureAudioPaths }
  \cup { [NoInput EXCEPT !.op = "downloadPath", !.base = b, !.path = p] :
           b \in PureBaseUrls, p \in PureAudioPaths \ {TextUndefined} }
  \cup { [NoInput EXCEPT !.op = "formatTime", !.time = t] : t \in PureTimes }
  \cup { [NoInput EXCEPT !.op = "isValidAudioFile", !.file = File(t, sz, << >>)] :
           t \in PureFileTypes, sz \in {1, MaxFileSize} }

NoOutput ==
  [ok |-> FALSE, alerts |-> << >>, b64 |-> << >>,
   url |-> [threw |-> FALSE, value |-> << >>],
   formatTime |-> << >>, formatDuration |-> << >>,
   client |-> FALSE, helpers |-> FALSE,
   fetched |-> [threw |-> FALSE, value |-> << >>]]

PureValidateFile ==
  /\ ppc = "input" /\ pin.op = "validateFile"
  /\ pout' = [NoOutput EXCEPT !.ok = validateFile(pin.file).ok,
                              !.alerts = validateFile(pin.file).alerts]
  /\ ppc' = "done"
  /\ UNCHANGED <<pin, clientVars, vcVars, ttsVars, surfaceVars>>

PureEncode ==
  /\ ppc = "input" /\ pin.op = "arrayBufferToBase64"
  /\ pout' = [NoOutput EXCEPT !.b64 = arrayBufferToBase64(pin.bytes)]
  /\ ppc' = "done"
  /\ UNCHANGED <<pin, clientVars, vcVars, ttsVars, surfaceVars>>

\* new VoiceAPIClient(base).getAudioUrl(path)
PureGetAudioUrl ==
  /\ ppc = "input" /\ pin.op = "getAudioUrl"
  /\ pout' = [NoOutput EXCEPT !.url = getAudioUrl(constructorBaseUrl(pin.base), pin.path)]
  /\ ppc' = "done"
  /\ UNCHANGED <<pin, clientVars, vcVars, ttsVars, surfaceVars>>

\* The locator of a result on its way to a download: the page resolves
\* result.audio_url for the player's src, the player hands its src to
\* onDownload, and downloadAudio resolves what it is given once more before
\* fetching it.
PureDownloadPath ==
  /\ ppc = "input" /\ pin.op = "downloadPath"
  /\ LET baseUrl == constructorBaseUrl(pin.base)
         src == getAudioUrl(baseUrl, pin.path)
     IN pout' = [NoOutput EXCEPT !.url = src,
                                 !.fetched = getAudioUrl(baseUrl, JsText(src.value))]
  /\ ppc' = "done"
  /\ UNCHANGED <<pin, clientVars, vcVars, ttsVars, surfaceVars>>

\* The three validators on one file (of a size validateFile accepts, so that
\* its answer is that of its type test).
PureTypeValidators ==
  /\ ppc = "input" /\ pin.op = "isValidAudioFile"
  /\ pout' = [NoOutput EXCEPT !.ok = validateFile(pin.file).ok,
                              !.alerts = validateFile(pin.file).alerts,
                              !.client = isValidAudioFile(pin.file),
                              !.helpers = helpersIsValidAudioFile(pin.file)]
  /\ ppc' = "done"
  /\ UNCHANGED <<pin, clientVars, vcVars, ttsVars, surfaceVars>>

\* formatTime(t) as the player renders it and formatDuration(t) of the
\* helpers, on the same value.
PureFormatTime ==
  /\ ppc = "input" /\ pin.op = "formatTime"
  /\ pout' = [NoOutput EXCEPT !.formatTime = formatTime(pin.time),
                              !.formatDuration = formatDuration(pin.time)]
  /\ ppc' = "done"
  /\ UNCHANGED <<pin, clientVars, vcVars, ttsVars, surfaceVars>>

----------------------------------------------------------------------------
(* The voice-conversion page: FileUpload, VCForm, VCPage                   *)

MaxInFlight == 2

\* Files the user may drop or pick: one that passes validateFile (at the
\* size limit), two that do not (wrong type; one byte too large).
UserFiles ==
  { File("audio/wav", MaxFileSize, << 82, 73 >>),
    File("audio/mpeg", 1, << 73 >>),
    File("audio/wav", MaxFileSize + 1, << 82, 73 >>) }

\* The file lists an event may carry: empty, or with a first file.
FileLists == { << >> } \cup { << f >> : f \in UserFiles }

\* How the fetch of a form's request may go.
FormOutcomes ==
  { FetchReject("Failed to fetch"),
    FetchResponse(500, "", ErrorBody("")),
    FetchResponse(200, "", JsonBody(JsAbsent, JsStr("/outputs/vc_1.wav"), NoProfiles)),
    FetchResponse(200, "", JsonBody(JsStr("model not loaded"), JsAbsent, NoProfiles)),
    FetchResponse(200, "", JsonBody(JsStr(""), JsStr("/outputs/vc_1.wav"), NoProfiles)),
    FetchResponse(200, "", JsonBody(JsAbsent, JsAbsent, ProfileList(<< >>))),
    FetchResponse(200, "", JsonBody(JsAbsent, JsAbsent,
                                    ProfileList(<< Profile("alice"), Profile("bob") >>))) }

NoResult == [present |-> FALSE, value |-> ErrorBody("")]
Result(r) == [present |-> TRUE, value |-> r]

NoFx ==
  [event |-> "none", file |-> NullFile, alerts |-> << >>, onFileSelect |-> << >>,
   onError |-> << >>, onResult |-> << >>, fetch |-> << >>, log |-> << >>,
   call |-> 0, download |-> NoDownloadOutcome, returned |-> "none", audio |-> "none"]

Fx(event, file) == [NoFx EXCEPT !.event = event, !.file = file]

\* The same for a step of the i-th oldest voiceConversion call in flight.
FxOfCall(event, file, i) == [Fx(event, file) EXCEPT !.call = i]

\* A handleResult that sets the result and leaves the error as it is.
handleResultKeepingError(vcResult) ==
  /\ pageResult' = Result(vcResult)
  /\ pageError' = pageError

\* handleResult and handleError of VCPage and of TTSPage (the same code in
\* both), the form's onResult/onError.
handleResult(vcResult) ==
  /\ pageResult' = Result(vcResult)
  /\ pageError' = JsStr("")

handleError(errorMessage) ==
  /\ pageError' = errorMessage
  /\ pageResult' = NoResult

\* FileUpload.handleDragOver / handleDragLeave (the drop zone is rendered
\* only while no file is selected).
handleDragOver ==
  /\ ~selectedFile.present
  /\ dragOver' = TRUE
  /\ fx' = NoFx
  /\ UNCHANGED <<selectedFile, formVars, pageVars, clientVars, pureVars, ttsVars, surfaceVars>>

handleDragLeave ==
  /\ ~selectedFile.present
  /\ dragOver' = FALSE
  /\ fx' = NoFx
  /\ UNCHANGED <<selectedFile, formVars, pageVars, clientVars, pureVars, ttsVars, surfaceVars>>

\* The common tail of handleDrop and handleFileInput: files[0] is validated
\* and, when valid, selected and handed to onFileSelect (VCForm's
\* setSourceFile).
acceptFiles(event, files) ==
  IF Len(files) > 0
    THEN LET file == files[1]
             v == validateFile(file)
         IN IF v.ok
              THEN /\ selectedFile' = file
                   /\ sourceFile' = file
                   /\ fx' = [Fx(event, file) EXCEPT !.onFileSelect = << file >>]
              ELSE /\ UNCHANGED <<selectedFile, sourceFile>>
                   /\ fx' = [Fx(event, file) EXCEPT !.alerts = v.alerts]
    ELSE /\ UNCHANGED <<selectedFile, sourceFile>>
         /\ fx' = Fx(event, NullFile)

handleDrop ==
  /\ ~selectedFile.present
  /\ dragOver' = FALSE
  /\ \E files \in FileLists : acceptFiles("drop", files)
  /\ UNCHANGED <<targetSpeaker, preservePitch, loading, profiles, profilesReq,
                 vcCalls, pageVars, clientVars, pureVars, ttsVars, surfaceVars>>

handleFileInput ==
  /\ ~selectedFile.present
  /\ \E files \in FileLists : acceptFiles("input", files)
  /\ UNCHANGED <<dragOver, targetSpeaker, preservePitch, loading, profiles,
                 profilesReq, vcCalls, pageVars, clientVars, pureVars, ttsVars, surfaceVars>>

\* FileUpload.clearFile (the Remove button, rendered while a file is
\* selected).
clearFile ==
  /\ selectedFile.present
  /\ selectedFile' = NullFile
  /\ sourceFile' = NullFile
  /\ fx' = [Fx("remove", NullFile) EXCEPT !.onFileSelect = << NullFile >>]
  /\ UNCHANGED <<dragOver, targetSpeaker, preservePitch, loading, profiles,
                 profilesReq, vcCalls, pageVars, clientVars, pureVars, ttsVars, surfaceVars>>

\* A target speaker <select> with a further option, "default", as TTSForm's
\* speaker <select> has.
selectTargetSpeakerWithDefault ==
  /\ \E value \in {"", "default"} \cup {profiles[i].id : i \in 1..Len(profiles)} :
       targetSpeaker' = value
  /\ fx' = NoFx
  /\ UNCHANGED <<uploadVars, sourceFile, preservePitch, loading, profiles,
                 profilesReq, vcCalls, pageVars, clientVars, pureVars, ttsVars, surfaceVars>>

\* The target speaker <select>: its options are "" and the loaded profiles.
selectTargetSpeaker ==
  /\ \E value \in {""} \cup {profiles[i].id : i \in 1..Len(profiles)} :
       targetSpeaker' = value
  /\ fx' = NoFx
  /\ UNCHANGED <<uploadVars, sourceFile, preservePitch, loading, profiles,
                 profilesReq, vcCalls, pageVars, clientVars, pureVars, ttsVars, surfaceVars>>

\* The preserve-pitch checkbox.
setPreservePitch ==
  /\ \E checked \in BOOLEAN : preservePitch' = checked
  /\ fx' = NoFx
  /\ UNCHANGED <<uploadVars, sourceFile, targetSpeaker, loading, profiles,
                 profilesReq, vcCalls, pageVars, clientVars, pureVars, ttsVars, surfaceVars>>

\* VCForm.loadProfiles from the point where getProfiles() returns.
loadProfiles ==
  /\ profilesReq = "pending"
  /\ profilesReq' = "done"
  /\ \E outcome \in FormOutcomes :
       LET settled == requestSettle(outcome)
           result == settled.value
       IN IF settled.state = "resolved" /\ result.profiles.kind = "array"
            THEN /\ profiles' = result.profiles.items
                 /\ targetSpeaker' = IF Len(result.profiles.items) > 0
                                       THEN result.profiles.items[1].id
                                       ELSE targetSpeaker
            ELSE UNCHANGED <<profiles, targetSpeaker>>
  /\ fx' = NoFx
  /\ UNCHANGED <<uploadVars, sourceFile, preservePitch, loading, vcCalls,
                 pageVars, clientVars, pureVars, ttsVars, surfaceVars>>

\* The two tests in the other order.
submitRefusalTargetFirst(source, target) ==
  IF target = "" THEN "Please select a target speaker"
  ELSE IF ~source.present THEN "Please select an audio file"
  ELSE ""

\* The precondition tests of handleSubmit: the message of the first that
\* fails, "" when both pass.
submitRefusal(source, target) ==
  IF ~source.present THEN "Please select an audio file"
  ELSE IF target = "" THEN "Please select a target speaker"
  ELSE ""

\* VCForm.handleSubmit up to `await apiClient.voiceConversion(...)`, which
\* itself runs up to reader.readAsArrayBuffer(audioFile).
handleSubmit ==
  /\ IF submitRefusal(sourceFile, targetSpeaker) # ""
       THEN /\ handleError(JsStr(submitRefusal(sourceFile, targetSpeaker)))
            /\ fx' = [Fx("submit", sourceFile) EXCEPT
                        !.onError = << JsStr(submitRefusal(sourceFile, targetSpeaker)) >>]
            /\ UNCHANGED <<loading, vcCalls>>
     ELSE /\ Len(vcCalls) < MaxInFlight
          /\ loading' = TRUE
          /\ vcCalls' = Append(vcCalls,
               [file |-> sourceFile, target |-> JsStr(targetSpeaker),
                arg |-> ArgObject([preservePitch |-> JsBool(preservePitch)]),
                stage |-> "reading"])
          /\ fx' = Fx("submit", sourceFile)
          /\ UNCHANGED pageVars
  /\ UNCHANGED <<uploadVars, sourceFile, targetSpeaker, preservePitch, profiles,
                 profilesReq, clientVars, pureVars, ttsVars, surfaceVars>>

\* A submit button that stays enabled while a conversion is running.
submitDisabledIgnoringLoading == ~sourceFile.present \/ targetSpeaker = ""

\* disabled={loading || !sourceFile || !targetSpeaker}
submitDisabled == loading \/ ~sourceFile.present \/ targetSpeaker = ""

\* The submit button: it submits the form only while it is enabled.
submitControl == ~submitDisabled /\ handleSubmit

RemoveAt(seq, i) == SubSeq(seq, 1, i - 1) \o SubSeq(seq, i + 1, Len(seq))

\* reader.onload of a call in flight, up to `await this.request(...)`.
readerOnload ==
  /\ \E i \in 1..Len(vcCalls) :
       /\ vcCalls[i].stage = "reading"
       /\ vcCalls' = [vcCalls EXCEPT ![i].stage = "fetching"]
       /\ fx' = [FxOfCall("reader.onload", vcCalls[i].file, i) EXCEPT
                   !.fetch = << issueFetch("/api/v1/vc",
                                  vcRequestOptions(vcCalls[i].file.bytes,
                                                   vcCalls[i].target,
                                                   vcCalls[i].arg)) >>]
  /\ UNCHANGED <<uploadVars, sourceFile, targetSpeaker, preservePitch, loading,
                 profiles, profilesReq, pageVars, clientVars, pureVars, ttsVars, surfaceVars>>

\* A reader.onerror whose rejection nothing catches: the call ends with no
\* callback and loading is left as it is.
readerOnerrorUncaught ==
  /\ \E i \in 1..Len(vcCalls) :
       /\ vcCalls[i].stage = "reading"
       /\ vcCalls' = RemoveAt(vcCalls, i)
       /\ fx' = FxOfCall("reader.onerror", vcCalls[i].file, i)
  /\ UNCHANGED <<uploadVars, sourceFile, targetSpeaker, preservePitch, loading, profiles,
                 profilesReq, pageVars, clientVars, pureVars, ttsVars, surfaceVars>>

\* reader.onerror: the promise rejects and handleSubmit's catch and finally
\* run.
readerOnerror ==
  /\ \E i \in 1..Len(vcCalls) :
       /\ vcCalls[i].stage = "reading"
       /\ vcCalls' = RemoveAt(vcCalls, i)
       /\ fx' = [FxOfCall("reader.onerror", vcCalls[i].file, i) EXCEPT
                   !.onError = << JsStr("Voice conversion failed: " \o "File read failed") >>]
  /\ handleError(JsStr("Voice conversion failed: " \o "File read failed"))
  /\ loading' = FALSE
  /\ UNCHANGED <<uploadVars, sourceFile, targetSpeaker, preservePitch, profiles,
                 profilesReq, clientVars, pureVars, ttsVars, surfaceVars>>

\* The request of a call in flight returns: resolve(result), then the rest
\* of handleSubmit (the error test, the catch, the finally).
submitSettle ==
  /\ \E i \in 1..Len(vcCalls), outcome \in FormOutcomes :
       LET settled == requestSettle(outcome)
           result == settled.value
       IN /\ vcCalls[i].stage = "fetching"
          /\ vcCalls' = RemoveAt(vcCalls, i)
          /\ IF settled.state = "rejected"
               THEN /\ handleError(JsStr("Voice conversion failed: " \o result.error.s))
                    /\ fx' = [FxOfCall("settle", vcCalls[i].file, i) EXCEPT
                                !.onError = << JsStr("Voice conversion failed: "
                                                     \o result.error.s) >>]
             ELSE IF Truthy(Get(result, "error"))
               THEN /\ handleError(result.error)
                    /\ fx' = [FxOfCall("settle", vcCalls[i].file, i) EXCEPT
                                !.onError = << result.error >>]
             ELSE /\ handleResult(result)
                  /\ fx' = [FxOfCall("settle", vcCalls[i].file, i) EXCEPT
                              !.onResult = << result >>]
  /\ loading' = FALSE
  /\ UNCHANGED <<uploadVars, sourceFile, targetSpeaker, preservePitch, profiles,
                 profilesReq, clientVars, pureVars, ttsVars, surfaceVars>>

\* The page is unmounted (the user navigates away): the form and its
\* controls are gone.  Neither VCForm's effect nor handleSubmit registers
\* anything that runs on unmount, so a file read and a request that are
\* pending stay pending and their continuations run later as they would
\* have.
unmount ==
  /\ mounted
  /\ mounted' = FALSE
  /\ fx' = Fx("unmount", NullFile)
  /\ UNCHANGED <<downloads, crashed, isPlaying, audioPlaying, playerVars, uploadVars,
                 formVars, pageVars, clientVars, pureVars, ttsVars>>

----------------------------------------------------------------------------
(* The result surface of a page: what TTSPage and VCPage render below the  *)
(* form, the AudioPlayer in it and the download action                     *)

\* The characters of the audio locators the backend answers with.
LocatorChars(locator) ==
  CASE locator = "/t1.wav" -> << "/", "t", "1", ".", "w", "a", "v" >>
    [] locator = "/t2.wav" -> << "/", "t", "2", ".", "w", "a", "v" >>
    [] locator = "/outputs/vc_1.wav" ->
         << "/", "o", "u", "t", "p", "u", "t", "s", "/", "v", "c", "_", "1", ".", "w", "a", "v" >>
    [] OTHER -> << >>

\* result.audio_url as getAudioUrl receives it.
audioUrlOf(result) ==
  IF Get(result, "audio_url").kind = "string"
    THEN JsText(LocatorChars(Get(result, "audio_url").s))
    ELSE TextUndefined

\* src={apiClient.getAudioUrl(result.audio_url)}, evaluated while the page
\* renders a result.
playerSrc(slot) == getAudioUrl(DefaultBaseUrl, audioUrlOf(slot.value))

\* What the result card shows: the page's own placeholder while result is
\* null; else the AudioPlayer, which shows its "No audio available"
\* placeholder when src is empty and its controls otherwise.  A render that
\* throws leaves nothing mounted.
resultSurface ==
  IF crashed THEN "unmounted"
  ELSE IF ~pageResult.present THEN "no-result"
  ELSE IF playerSrc(pageResult).threw THEN "unmounted"
  ELSE IF playerSrc(pageResult).value = << >> THEN "no-audio"
  ELSE "player"

\* The render that follows setResult(newSlot): whether it throws, and what
\* becomes of the AudioPlayer's state and of the <audio> element.  A null
\* result unmounts the player; a result with the same src leaves both alone;
\* a new src makes the element load the new resource, which stops playback,
\* while the component keeps its isPlaying.
renderResult(newSlot) ==
  IF newSlot.present /\ playerSrc(newSlot).threw
    THEN /\ crashed' = TRUE /\ isPlaying' = FALSE /\ audioPlaying' = FALSE
         /\ currentTime' = 0 /\ duration' = 0 /\ volume' = 10
  ELSE IF ~newSlot.present
    THEN /\ crashed' = FALSE /\ isPlaying' = FALSE /\ audioPlaying' = FALSE
         /\ currentTime' = 0 /\ duration' = 0 /\ volume' = 10
  ELSE IF pageResult.present /\ playerSrc(pageResult) = playerSrc(newSlot)
    THEN crashed' = FALSE /\ UNCHANGED <<isPlaying, audioPlaying, playerVars>>
  ELSE /\ crashed' = FALSE
       /\ isPlaying' = (pageResult.present /\ isPlaying)
       /\ audioPlaying' = FALSE
       /\ UNCHANGED playerVars

----------------------------------------------------------------------------
(* The text-to-speech page: TTSForm, TTSPage                               *)

\* What the user may type, and the steps of the speed slider used here
\* (min 0.5, max 2.0, in tenths).
TtsTexts == { << >>, << " " >>, << "h", "i" >> }

TtsLanguages == {"zh", "en"}

SpeedSteps == {5, 20}

\* How the fetch of getProfiles() may go for the form.
ProfileOutcomes ==
  { FetchReject("Failed to fetch"),
    FetchResponse(404, "Not Found", ErrorBody("")),
    FetchResponse(200, "", JsonBody(JsAbsent, JsAbsent, ProfileList(<< >>))),
    FetchResponse(200, "", JsonBody(JsAbsent, JsAbsent, ProfileList(<< Profile("alice") >>))) }

\* How the fetch of a textToSpeech request may go.
TtsOutcomes ==
  { FetchReject("Failed to fetch"),
    FetchResponse(500, "", ErrorBody("")),
    FetchResponse(200, "", JsonBody(JsAbsent, JsStr("/t1.wav"), NoProfiles)),
    FetchResponse(200, "", JsonBody(JsAbsent, JsStr("/t2.wav"), NoProfiles)),
    FetchResponse(200, "", JsonBody(JsAbsent, JsStr(""), NoProfiles)),
    FetchResponse(200, "", JsonBody(JsAbsent, JsAbsent, NoProfiles)),
    FetchResponse(200, "", JsonBody(JsStr("model not loaded"), JsAbsent, NoProfiles)) }

\* The console.error of request's catch.
requestLog(outcome) ==
  IF requestTry(outcome).threw
    THEN << "Request failed: " \o requestTry(outcome).message >>
    ELSE << >>

setText ==
  /\ ~crashed
  /\ \E value \in TtsTexts : text' = value
  /\ fx' = NoFx
  /\ UNCHANGED <<speakerId, language, speed, ttsCalls, uploadVars, formVars,
                 pageVars, surfaceVars, clientVars, pureVars>>

\* The speaker <select>: its options are "default" and the loaded profiles.
setSpeakerId ==
  /\ ~crashed
  /\ \E value \in {"default"} \cup {profiles[i].id : i \in 1..Len(profiles)} :
       speakerId' = value
  /\ fx' = NoFx
  /\ UNCHANGED <<text, language, speed, ttsCalls, uploadVars, formVars,
                 pageVars, surfaceVars, clientVars, pureVars>>

setLanguage ==
  /\ ~crashed
  /\ \E value \in TtsLanguages : language' = value
  /\ fx' = NoFx
  /\ UNCHANGED <<text, speakerId, speed, ttsCalls, uploadVars, formVars,
                 pageVars, surfaceVars, clientVars, pureVars>>

setSpeed ==
  /\ ~crashed
  /\ \E value \in SpeedSteps : speed' = value
  /\ fx' = NoFx
  /\ UNCHANGED <<text, speakerId, language, ttsCalls, uploadVars, formVars,
                 pageVars, surfaceVars, clientVars, pureVars>>

\* TTSForm.loadProfiles from the point where getProfiles() returns.
ttsLoadProfiles ==
  /\ ~crashed
  /\ profilesReq = "pending"
  /\ \E outcome \in ProfileOutcomes :
       LET settled == requestSettle(outcome)
           result == settled.value
       IN /\ profilesReq' = IF requestTry(outcome).threw THEN "failed" ELSE "done"
          /\ profiles' = IF settled.state = "resolved" /\ result.profiles.kind = "array"
                           THEN result.profiles.items ELSE profiles
          /\ fx' = [Fx("loadProfiles", NullFile) EXCEPT
                      !.log = IF settled.state = "resolved" THEN requestLog(outcome)
                              ELSE << "Failed to load profiles:" >>]
  /\ UNCHANGED <<ttsVars, uploadVars, sourceFile, targetSpeaker, preservePitch,
                 loading, vcCalls, pageVars, surfaceVars, clientVars, pureVars>>

\* A submit button that also waits for a speaker profile to be loaded.
ttsSubmitDisabledWithoutProfiles == loading \/ trim(text) = << >> \/ profiles = << >>

\* disabled={loading || !text.trim()}
ttsSubmitDisabled == loading \/ trim(text) = << >>

\* TTSForm.handleSubmit up to `await apiClient.textToSpeech(...)`, which
\* runs up to the fetch inside request().
ttsHandleSubmit ==
  /\ ~crashed
  /\ IF trim(text) = << >>
       THEN /\ handleError(JsStr("Please enter text to synthesize"))
            /\ renderResult(NoResult)
            /\ fx' = [Fx("submit", NullFile) EXCEPT
                        !.onError = << JsStr("Please enter text to synthesize") >>]
            /\ UNCHANGED <<loading, ttsCalls>>
       ELSE /\ loading' = TRUE
            /\ ttsCalls' = Append(ttsCalls, [stage |-> "fetching"])
            /\ fx' = [Fx("submit", NullFile) EXCEPT
                        !.fetch = << issueFetch("/api/v1/tts",
                                      ttsRequestOptions(text,
                                        ArgObject([speakerId |-> JsStr(speakerId),
                                                   language  |-> JsStr(language),
                                                   speed     |-> JsNum(speed)]))) >>]
            /\ UNCHANGED <<pageVars, crashed, isPlaying, audioPlaying, playerVars>>
  /\ UNCHANGED <<text, speakerId, language, speed, downloads, mounted, uploadVars, sourceFile,
                 targetSpeaker, preservePitch, profiles, profilesReq, vcCalls,
                 clientVars, pureVars>>

\* The request of a call in flight returns, then the rest of handleSubmit
\* (the error test, the catch, the finally) and the render that follows.
ttsSubmitSettle ==
  /\ ~crashed
  /\ \E i \in 1..Len(ttsCalls), outcome \in TtsOutcomes :
       LET settled == requestSettle(outcome)
           result == settled.value
       IN /\ ttsCalls' = RemoveAt(ttsCalls, i)
          /\ IF settled.state = "rejected"
               THEN /\ handleError(JsStr("TTS request failed: " \o result.error.s))
                    /\ renderResult(NoResult)
                    /\ fx' = [Fx("settle", NullFile) EXCEPT
                                !.onError = << JsStr("TTS request failed: "
                                                     \o result.error.s) >>,
                                !.log = requestLog(outcome)]
             ELSE IF Truthy(Get(result, "error"))
               THEN /\ handleError(result.error)
                    /\ renderResult(NoResult)
                    /\ fx' = [Fx("settle", NullFile) EXCEPT
                                !.onError = << result.error >>,
                                !.log = requestLog(outcome)]
             ELSE /\ handleResult(result)
                  /\ renderResult(Result(result))
                  /\ fx' = [Fx("settle", NullFile) EXCEPT
                              !.onResult = << result >>,
                              !.log = requestLog(outcome)]
  /\ loading' = FALSE
  /\ UNCHANGED <<text, speakerId, language, speed, downloads, mounted, uploadVars, sourceFile,
                 targetSpeaker, preservePitch, profiles, profilesReq, vcCalls,
                 clientVars, pureVars>>

----------------------------------------------------------------------------
(* AudioPlayer and the pages' handleDownload                               *)

MaxDownloads == 1

\* AudioPlayer.togglePlay: audio.pause() stops the element; audio.play()
\* starts it or fails to (its promise rejects, which nothing handles); the
\* flag is flipped either way.
togglePlay ==
  /\ resultSurface = "player"
  /\ IF isPlaying
       THEN audioPlaying' = FALSE
       ELSE \E started \in BOOLEAN :
              /\ audioPlaying => started
              /\ audioPlaying' = started
  /\ isPlaying' = ~isPlaying
  /\ fx' = [Fx("togglePlay", NullFile) EXCEPT
              !.audio = IF isPlaying THEN "pause" ELSE "play"]
  /\ UNCHANGED <<downloads, crashed, mounted, playerVars, ttsVars, uploadVars, formVars, pageVars,
                 clientVars, pureVars>>

\* A handleEnded that also rewinds the displayed time.
handleEndedRewinding ==
  /\ resultSurface = "player"
  /\ audioPlaying
  /\ audioPlaying' = FALSE
  /\ isPlaying' = FALSE
  /\ currentTime' = 0
  /\ fx' = Fx("ended", NullFile)
  /\ UNCHANGED <<downloads, crashed, mounted, duration, volume, ttsVars, uploadVars,
                 formVars, pageVars, clientVars, pureVars>>

\* The element's `ended` event and its listener handleEnded.
handleEnded ==
  /\ resultSurface = "player"
  /\ audioPlaying
  /\ audioPlaying' = FALSE
  /\ isPlaying' = FALSE
  /\ fx' = Fx("ended", NullFile)
  /\ UNCHANGED <<downloads, crashed, mounted, playerVars, ttsVars, uploadVars, formVars, pageVars,
                 clientVars, pureVars>>

MaxTime == 2

\* The element's `timeupdate` event and its listener updateTime:
\* setCurrentTime(audio.currentTime).
updateTime ==
  /\ resultSurface = "player"
  /\ \E position \in 0..MaxTime : currentTime' = position
  /\ fx' = Fx("timeupdate", NullFile)
  /\ UNCHANGED <<downloads, crashed, isPlaying, audioPlaying, mounted, duration, volume,
                 ttsVars, uploadVars, formVars, pageVars, clientVars, pureVars>>

\* The element's `loadedmetadata` event and its listener updateDuration:
\* setDuration(audio.duration || 0), audio.duration being NaN or a length.
updateDuration ==
  /\ resultSurface = "player"
  /\ \E length \in {JsNaN, JsNum(MaxTime)} :
       duration' = OrDefault(length, JsNum(0)).n
  /\ fx' = Fx("loadedmetadata", NullFile)
  /\ UNCHANGED <<downloads, crashed, isPlaying, audioPlaying, mounted, currentTime, volume,
                 ttsVars, uploadVars, formVars, pageVars, clientVars, pureVars>>

\* AudioPlayer.handleSeek: a click at a fraction of the progress bar (here
\* its start, its middle or its end) sets the time to that fraction of the
\* duration.
handleSeek ==
  /\ resultSurface = "player"
  /\ \E percent \in {0, 50, 100} : currentTime' = (percent * duration) \div 100
  /\ fx' = Fx("seek", NullFile)
  /\ UNCHANGED <<downloads, crashed, isPlaying, audioPlaying, mounted, duration, volume,
                 ttsVars, uploadVars, formVars, pageVars, clientVars, pureVars>>

\* AudioPlayer.handleVolumeChange: the range input (min 0, max 1, in tenths).
handleVolumeChange ==
  /\ resultSurface = "player"
  /\ \E newVolume \in {0, 5, 10} : volume' = newVolume
  /\ fx' = Fx("volume", NullFile)
  /\ UNCHANGED <<downloads, crashed, isPlaying, audioPlaying, mounted, currentTime,
                 duration, ttsVars, uploadVars, formVars, pageVars, clientVars, pureVars>>

\* The download button: onDownload(src, filename) is the page's
\* handleDownload, which runs up to `await apiClient.downloadAudio(...)`.
handleDownload ==
  /\ resultSurface = "player"
  /\ Len(downloads) < MaxDownloads
  /\ downloads' = Append(downloads, [audioUrl |-> JsText(playerSrc(pageResult).value)])
  /\ fx' = Fx("download", NullFile)
  /\ UNCHANGED <<crashed, isPlaying, audioPlaying, mounted, playerVars, ttsVars, uploadVars, formVars,
                 pageVars, clientVars, pureVars>>

\* downloadAudio returns and handleDownload finishes: setError('Download
\* failed') when it returned false, nothing otherwise.
handleDownloadSettle ==
  /\ ~crashed
  /\ \E i \in 1..Len(downloads), outcome \in DownloadOutcomes :
       LET success == downloadAudio(DefaultBaseUrl, downloads[i].audioUrl, outcome) IN
       /\ downloads' = RemoveAt(downloads, i)
       /\ pageError' = IF ~success THEN JsStr("Download failed") ELSE pageError
       /\ fx' = [Fx("downloadSettle", NullFile) EXCEPT
                   !.download = outcome,
                   !.returned = IF success THEN "true" ELSE "false",
                   !.log = IF success THEN << >> ELSE << "Download failed:" >>]
  /\ UNCHANGED <<pageResult, crashed, isPlaying, audioPlaying, mounted, playerVars, ttsVars, uploadVars,
                 formVars, clientVars, pureVars>>

----------------------------------------------------------------------------
(* Specifications                                                          *)

ClientNext ==
  \/ ClientRequest
  \/ ClientTextToSpeech
  \/ ClientVoiceConversion
  \/ ClientReaderLoad
  \/ ClientReaderError
  \/ ClientFetchSettle
  \/ ClientHealthCheck
  \/ ClientGetProfiles
  \/ ClientDownloadAudio
  \/ ClientDownloadSettle

InitClient ==
  /\ cpc = "idle"
  /\ ccall = NoCall
  /\ cfetch = NoFetch
  /\ coutcome = NoOutcome
  /\ cresult = Pending
  /\ cdownload = NoDownload
  /\ ppc = "off"
  /\ pin = NoInput
  /\ pout = NoOutput
  /\ dragOver = FALSE
  /\ selectedFile = NullFile
  /\ sourceFile = NullFile
  /\ targetSpeaker = ""
  /\ preservePitch = TRUE
  /\ loading = FALSE
  /\ profiles = << >>
  /\ profilesReq = "off"
  /\ vcCalls = << >>
  /\ pageResult = NoResult
  /\ pageError = JsStr("")
  /\ text = << >>
  /\ speakerId = "default"
  /\ language = "zh"
  /\ speed = 10
  /\ ttsCalls = << >>
  /\ downloads = << >>
  /\ crashed = FALSE
  /\ isPlaying = FALSE
  /\ audioPlaying = FALSE
  /\ mounted = FALSE
  /\ currentTime = 0
  /\ duration = 0
  /\ volume = 10
  /\ fx = NoFx

SpecClient == InitClient /\ [][ClientNext]_vars

PureNext ==
  \/ PureValidateFile
  \/ PureEncode
  \/ PureGetAudioUrl
  \/ PureFormatTime
  \/ PureTypeValidators
  \/ PureDownloadPath

InitPure ==
  /\ cpc = "off"
  /\ ccall = NoCall
  /\ cfetch = NoFetch
  /\ coutcome = NoOutcome
  /\ cresult = Pending
  /\ cdownload = NoDownload
  /\ ppc = "input"
  /\ pin \in PureInputs
  /\ pout = NoOutput
  /\ dragOver = FALSE
  /\ selectedFile = NullFile
  /\ sourceFile = NullFile
  /\ targetSpeaker = ""
  /\ preservePitch = TRUE
  /\ loading = FALSE
  /\ profiles = << >>
  /\ profilesReq = "off"
  /\ vcCalls = << >>
  /\ pageResult = NoResult
  /\ pageError = JsStr("")
  /\ text = << >>
  /\ speakerId = "default"
  /\ language = "zh"
  /\ speed = 10
  /\ ttsCalls = << >>
  /\ downloads = << >>
  /\ crashed = FALSE
  /\ isPlaying = FALSE
  /\ audioPlaying = FALSE
  /\ mounted = FALSE
  /\ currentTime = 0
  /\ duration = 0
  /\ volume = 10
  /\ fx = NoFx

SpecPure == InitPure /\ [][PureNext]_vars

\* The voice-conversion page once mounted: VCForm's effect has called
\* loadProfiles, whose getProfiles() request is in flight.
Init ==
  /\ cpc = "off"
  /\ ccall = NoCall
  /\ cfetch = NoFetch
  /\ coutcome = NoOutcome
  /\ cresult = Pending
  /\ cdownload = NoDownload
  /\ ppc = "off"
  /\ pin = NoInput
  /\ pout = NoOutput
  /\ dragOver = FALSE
  /\ selectedFile = NullFile
  /\ sourceFile = NullFile
  /\ targetSpeaker = ""
  /\ preservePitch = TRUE
  /\ loading = FALSE
  /\ profiles = << >>
  /\ profilesReq = "pending"
  /\ vcCalls = << >>
  /\ pageResult = NoResult
  /\ pageError = JsStr("")
  /\ text = << >>
  /\ speakerId = "default"
  /\ language = "zh"
  /\ speed = 10
  /\ ttsCalls = << >>
  /\ downloads = << >>
  /\ crashed = FALSE
  /\ isPlaying = FALSE
  /\ audioPlaying = FALSE
  /\ mounted = TRUE
  /\ currentTime = 0
  /\ duration = 0
  /\ volume = 10
  /\ fx = [Fx("mount", NullFile) EXCEPT
             !.fetch = << issueFetch("/api/v1/profiles", NoOptions) >>]

Next ==
  \/ handleDragOver
  \/ handleDragLeave
  \/ handleDrop
  \/ handleFileInput
  \/ clearFile
  \/ selectTargetSpeaker
  \/ setPreservePitch
  \/ loadProfiles
  \/ handleSubmit
  \/ readerOnload
  \/ readerOnerror
  \/ submitSettle

Spec == Init /\ [][Next]_vars

\* The voice-conversion page used through its rendered controls only: the
\* form is submitted by its submit button.
UserNext ==
  \/ handleDragOver
  \/ handleDragLeave
  \/ handleDrop
  \/ handleFileInput
  \/ clearFile
  \/ selectTargetSpeaker
  \/ setPreservePitch
  \/ loadProfiles
  \/ submitControl
  \/ readerOnload
  \/ readerOnerror
  \/ submitSettle

SpecUser == Init /\ [][UserNext]_vars

\* The same page with its teardown: the controls act only while the page is
\* mounted; what was started before the unmount goes on after it.
TeardownNext ==
  \/ mounted /\ handleDragOver
  \/ mounted /\ handleDragLeave
  \/ mounted /\ handleDrop
  \/ mounted /\ handleFileInput
  \/ mounted /\ clearFile
  \/ mounted /\ selectTargetSpeaker
  \/ mounted /\ setPreservePitch
  \/ mounted /\ submitControl
  \/ unmount
  \/ loadProfiles
  \/ readerOnload
  \/ readerOnerror
  \/ submitSettle

SpecTeardown == Init /\ [][TeardownNext]_vars

\* The page used through its controls, with what the browser guarantees: a
\* file read that was started ends (in onload or in onerror) and a request
\* that was issued returns.
SpecUserLive ==
  /\ Init
  /\ [][UserNext]_vars
  /\ WF_vars(readerOnload \/ readerOnerror)
  /\ WF_vars(submitSettle)

\* The text-to-speech page once mounted, used through its rendered controls:
\* TTSForm's effect has called loadProfiles, whose getProfiles() request is
\* in flight; the submit button acts only while it is enabled.
ttsSubmitControl == ~ttsSubmitDisabled /\ ttsHandleSubmit

InitTts ==
  /\ cpc = "off"
  /\ ccall = NoCall
  /\ cfetch = NoFetch
  /\ coutcome = NoOutcome
  /\ cresult = Pending
  /\ cdownload = NoDownload
  /\ ppc = "off"
  /\ pin = NoInput
  /\ pout = NoOutput
  /\ dragOver = FALSE
  /\ selectedFile = NullFile
  /\ sourceFile = NullFile
  /\ targetSpeaker = ""
  /\ preservePitch = TRUE
  /\ loading = FALSE
  /\ profiles = << >>
  /\ profilesReq = "pending"
  /\ vcCalls = << >>
  /\ pageResult = NoResult
  /\ pageError = JsStr("")
  /\ text = << >>
  /\ speakerId = "default"
  /\ language = "zh"
  /\ speed = 10
  /\ ttsCalls = << >>
  /\ downloads = << >>
  /\ crashed = FALSE
  /\ isPlaying = FALSE
  /\ audioPlaying = FALSE
  /\ mounted = TRUE
  /\ currentTime = 0
  /\ duration = 0
  /\ volume = 10
  /\ fx = [Fx("mount", NullFile) EXCEPT
             !.fetch = << issueFetch("/api/v1/profiles", NoOptions) >>]

TtsNext ==
  \/ setText
  \/ setSpeakerId
  \/ setLanguage
  \/ setSpeed
  \/ ttsLoadProfiles
  \/ ttsSubmitControl
  \/ ttsSubmitSettle
  \/ togglePlay
  \/ handleEnded
  \/ handleDownload
  \/ handleDownloadSettle

SpecTts == InitTts /\ [][TtsNext]_vars

\* The AudioPlayer on its own, mounted by a page that shows a result with an
\* audio locator: its controls and the events of its <audio> element.
InitPlayer ==
  /\ cpc = "off"
  /\ ccall = NoCall
  /\ cfetch = NoFetch
  /\ coutcome = NoOutcome
  /\ cresult = Pending
  /\ cdownload = NoDownload
  /\ ppc = "off"
  /\ pin = NoInput
  /\ pout = NoOutput
  /\ dragOver = FALSE
  /\ selectedFile = NullFile
  /\ sourceFile = NullFile
  /\ targetSpeaker = ""
  /\ preservePitch = TRUE
  /\ loading = FALSE
  /\ profiles = << >>
  /\ profilesReq = "done"
  /\ vcCalls = << >>
  /\ pageResult = Result(JsonBody(JsAbsent, JsStr("/t1.wav"), NoProfiles))
  /\ pageError = JsStr("")
  /\ text = << >>
  /\ speakerId = "default"
  /\ language = "zh"
  /\ speed = 10
  /\ ttsCalls = << >>
  /\ downloads = << >>
  /\ crashed = FALSE
  /\ isPlaying = FALSE
  /\ audioPlaying = FALSE
  /\ mounted = TRUE
  /\ currentTime = 0
  /\ duration = 0
  /\ volume = 10
  /\ fx = Fx("mount", NullFile)

PlayerNext ==
  \/ togglePlay
  \/ handleEnded
  \/ updateTime
  \/ updateDuration
  \/ handleSeek
  \/ handleVolumeChange

SpecPlayer == InitPlayer /\ [][PlayerNext]_vars

----------------------------------------------------------------------------
(* Claims about VoiceAPIClient, checked under SpecClient                    *)

\* The payload of the fetch the current call issued.
SentPayload == cfetch.config.body.json

\* C1: request never throws or rejects.  Whatever the fetch does (network
\* failure, non-2xx status, 2xx whose body does not decode, 2xx with a JSON
\* body), the promise resolves; its value is the decoded body exactly when
\* the status is 2xx and decoding succeeded, and otherwise an object
\* {error: message} whose message is a non-empty string.
C1_RequestAlwaysResolves ==
  (cpc = "settled" /\ cfetch.issued) =>
    /\ cresult.state = "resolved"
    /\ IF /\ coutcome.kind = "response"
          /\ coutcome.status \in 200..299
          /\ coutcome.decodes
         THEN cresult.value = coutcome.body
         ELSE /\ cresult.value.error.kind = "string"
              /\ cresult.value.error.s # ""
              /\ cresult.value.audio_url.kind = "absent"
              /\ cresult.value.profiles.kind = "absent"

\* C1 witness: a 2xx response whose body failed to decode came back as an
\* error object.
C1_Witness ==
  /\ cpc = "settled" /\ ccall.op = "request"
  /\ coutcome.kind = "response" /\ coutcome.status = 200 /\ ~coutcome.decodes
  /\ cresult = Resolved(ErrorBody("Unexpected end of JSON input"))

\* C2: the headers handed to fetch hold every default header the caller did
\* not override together with every caller-supplied header, also when the
\* options carry their own headers object.
C2_DefaultHeadersMerged ==
  cfetch.issued =>
    /\ cfetch.config.headers.kind = "object"
    /\ \A k \in HeaderKeys :
         LET supplied == IF cfetch.options.headers.kind = "object"
                           THEN cfetch.options.headers.obj[k]
                           ELSE JsAbsent
         IN cfetch.config.headers.obj[k] =
              (IF supplied.kind # "absent" THEN supplied ELSE defaultHeaders[k])

\* C3: a text that is empty after trimming is refused by textToSpeech: no
\* request is issued for it and the caller gets an error outcome.
C3_BlankTextRefused ==
  (ccall.op = "textToSpeech" /\ trim(ccall.text) = << >>) =>
    /\ ~cfetch.issued
    /\ cpc = "settled" =>
         (cresult.state = "rejected" \/ cresult.value.error.kind # "absent")

\* Whether the caller set an option: the key is there and is not undefined.
Supplied(v) == v.kind \notin {"absent", "undefined"}

\* The options object textToSpeech works on, and the three fields it fills.
CallerTtsOptions == defaultParam(ccall.ttsArg, NoTtsOptions)

TtsFields ==
  { [option |-> "speakerId", field |-> "speaker_id", default |-> JsStr("default")],
    [option |-> "language",  field |-> "language",   default |-> JsStr("zh")],
    [option |-> "speed",     field |-> "speed",      default |-> JsNum(10)] }

\* C6 as stated: every field the caller set is sent as supplied, and a field
\* is defaulted only when the caller left it unset.
C6_SuppliedNeverDefaulted ==
  (cfetch.issued /\ ccall.op = "textToSpeech") =>
    \A f \in TtsFields :
      SentPayload[f.field] =
        (IF Supplied(CallerTtsOptions[f.option])
           THEN CallerTtsOptions[f.option] ELSE f.default)

\* C6 as amended: a supplied value is sent unchanged when it is truthy (a
\* non-empty string, a number other than 0 and NaN); the default is sent when
\* the field is unset or the supplied value is falsy (null, "", 0, NaN).
C6_TruthySuppliedElseDefault ==
  (cfetch.issued /\ ccall.op = "textToSpeech") =>
    \A f \in TtsFields :
      LET v == CallerTtsOptions[f.option] IN
      SentPayload[f.field] =
        (IF (v.kind = "string" /\ v.s # "") \/ (v.kind = "number" /\ v.n # 0)
           THEN v ELSE f.default)

\* C6 witness: the caller supplied speed 0 and an empty speaker id, and the
\* request carries 1.0 and "default".
C6_Witness ==
  /\ cfetch.issued /\ ccall.op = "textToSpeech"
  /\ CallerTtsOptions.speed = JsNum(0) /\ SentPayload.speed = JsNum(10)
  /\ CallerTtsOptions.speakerId = JsStr("") /\ SentPayload.speaker_id = JsStr("default")
  /\ CallerTtsOptions.language = JsStr("en") /\ SentPayload.language = JsStr("en")

\* C7: every TTS request that reaches the network carries a speed between
\* 0.5 and 2.0 inclusive (in tenths: 5 to 20).
C7_SpeedWithinRange ==
  (cfetch.issued /\ ccall.op = "textToSpeech") =>
    /\ SentPayload.speed.kind = "number"
    /\ SentPayload.speed.n >= 5
    /\ SentPayload.speed.n <= 20

\* C23: no TTS request reaches the network with a text longer than 1000
\* characters: textToSpeech refuses such a text (or is never given one),
\* whatever the length of the text it is called with.
C23_NoTextBeyondCeiling ==
  (cfetch.issued /\ ccall.op = "textToSpeech") =>
    /\ SentPayload.text.kind = "string"
    /\ Len(SentPayload.text.chars) <= 1000

\* C9: every payload sent to /api/v1/vc has a boolean preserve_pitch, which
\* is false only when the caller passed preservePitch exactly false and true
\* in every other case (omitted, undefined, options absent, any other value).
C9_PreservePitchExplicit ==
  (cfetch.issued /\ ccall.op = "voiceConversion") =>
    /\ cfetch.url = "http://localhost:8000/api/v1/vc"
    /\ cfetch.config.body.kind = "json"
    /\ SentPayload.preserve_pitch.kind = "boolean"
    /\ SentPayload.preserve_pitch.b =
         ~(ccall.vcArg.kind = "object" /\ ccall.vcArg.obj.preservePitch = JsBool(FALSE))

\* C9 witness: a request went out for a call that passed no options at all,
\* carrying preserve_pitch true.
C9_Witness ==
  /\ cfetch.issued /\ ccall.op = "voiceConversion"
  /\ ccall.vcArg.kind = "absent"
  /\ SentPayload.preserve_pitch = JsBool(TRUE)

\* C26: in voiceConversion the request to /api/v1/vc is issued only once the
\* file read has completed successfully and the whole content is encoded (it
\* is issued by reader.onload and its source_audio decodes to all the bytes
\* of the file); the returned promise settles only after that request has
\* returned; and when the file read fails, the promise rejects and no
\* request is issued for that call, then or later.
C26_RequestAfterReadSettleAfterRequest ==
  /\ [] ( ccall.op = "voiceConversion" =>
            /\ cpc = "reading" => (~cfetch.issued /\ cresult.state = "pending")
            /\ cpc = "fetching" => (cfetch.issued /\ cresult.state = "pending")
            /\ cfetch.issued =>
                 /\ cfetch.url = "http://localhost:8000/api/v1/vc"
                 /\ SentPayload.source_audio.kind = "string"
                 /\ b64decode(SentPayload.source_audio.chars) = ccall.file.bytes
            /\ (cpc = "settled" /\ coutcome.kind = "none") =>
                 (~cfetch.issued /\ cresult.state = "rejected")
            /\ (cpc = "settled" /\ coutcome.kind # "none") =>
                 (cfetch.issued /\ cresult = requestSettle(coutcome)) )
  /\ [][ ccall.op = "voiceConversion" =>
           /\ (~cfetch.issued /\ cfetch'.issued) => (cpc = "reading" /\ cpc' = "fetching")
           /\ (cresult.state = "pending" /\ cresult'.state # "pending") =>
                \/ cpc = "fetching" /\ coutcome'.kind # "none"
                \/ cpc = "reading" /\ ~cfetch'.issued /\ cresult'.state = "rejected"
           /\ cpc = "settled" => cfetch' = cfetch ]_vars

\* C26 witness: a call whose file was read, encoded and sent has settled
\* with the decoded body of the response.
C26_Witness ==
  /\ ccall.op = "voiceConversion" /\ cpc = "settled"
  /\ ccall.file.bytes = << 82, 73, 70 >>
  /\ cfetch.issued /\ SentPayload.source_audio = JsText(<< "U", "k", "l", "G" >>)
  /\ coutcome.kind = "response" /\ coutcome.status = 200 /\ coutcome.decodes
  /\ cresult = Resolved(coutcome.body)

\* C11: every public operation of the client completes by returning and never
\* throws or rejects: the promise of request, healthCheck, textToSpeech,
\* voiceConversion and getProfiles resolves (to a payload or to an error
\* descriptor) and downloadAudio returns a boolean, also when the file read
\* inside voiceConversion fails.
C11_PublicOperationsNeverReject ==
  /\ cpc = "settled" => cresult.state = "resolved"
  /\ cpc = "returned" => cdownload.returned \in {"true", "false"}

----------------------------------------------------------------------------
(* Claims about the text-to-speech page, checked under SpecTts             *)

\* The payload of the request a submission has just issued.
SubmittedPayload == fx.fetch[1].config.body.json

C13_SlotShowsLatestCall ==
  [][ /\ fx'.onResult # << >> =>
           /\ pageResult' = Result(fx'.onResult[1])
           /\ pageError' = JsStr("")
      /\ fx'.onError # << >> =>
           /\ pageError' = fx'.onError[1]
           /\ pageResult' = NoResult ]_vars

\* C13 witness: handleResult has just replaced an earlier result (the player
\* it was playing in is still mounted, its isPlaying kept) and the slot holds
\* the new result with an empty error.
C13_Witness ==
  /\ fx.event = "settle" /\ Len(fx.onResult) = 1
  /\ pageResult = Result(fx.onResult[1])
  /\ fx.onResult[1].audio_url = JsStr("/t2.wav")
  /\ pageError = JsStr("")
  /\ isPlaying

\* C17: a failed download is surfaced.  downloadAudio returns false when the
\* fetch fails, the status is not 2xx, or materializing or saving the blob
\* fails, and true only when all of them went through; handleDownload then
\* sets the slot's error to 'Download failed' on false and leaves the slot's
\* result as it is; on true it changes neither the result nor the error.
C17_FailedDownloadSurfaced ==
  [][ fx'.event = "downloadSettle" =>
        LET went == fx'.download
            through == /\ went.fetch = "response"
                       /\ went.status \in 200..299
                       /\ went.blob
                       /\ went.save
        IN /\ fx'.returned = (IF through THEN "true" ELSE "false")
           /\ pageResult' = pageResult
           /\ pageError' = (IF through THEN pageError ELSE JsStr("Download failed"))
           /\ fx'.onError = << >>
           /\ fx'.onResult = << >> ]_vars

\* C17 witness: the download of a shown result was answered with 404;
\* downloadAudio returned false and the slot shows 'Download failed' next to
\* the result.
C17_Witness ==
  /\ fx.event = "downloadSettle" /\ fx.returned = "false"
  /\ fx.download.fetch = "response" /\ fx.download.status = 404
  /\ pageError = JsStr("Download failed")
  /\ pageResult.present /\ pageResult.value.audio_url = JsStr("/t1.wav")

\* C19: whenever the player's controls are shown, after any sequence of
\* play/pause toggles, ended events, play() calls that fail to start and
\* changes of src, the isPlaying flag is true exactly when the audio element
\* is playing.
C19_IsPlayingReflectsPlayback ==
  resultSurface = "player" => (isPlaying = audioPlaying)

\* C20: whenever the slot has no audio locator (no result, or a result whose
\* audio_url is missing or empty), the result surface shows a placeholder
\* (the page's own or the player's), with no controls; and no render throws
\* while resolving the locator.
C20_NoLocatorShowsPlaceholder ==
  /\ ~crashed
  /\ (~pageResult.present \/ ~Truthy(Get(pageResult.value, "audio_url"))) =>
       resultSurface \in {"no-result", "no-audio"}

----------------------------------------------------------------------------
(* Claims about the AudioPlayer, checked under SpecPlayer                  *)

\* C27: when the audio element fires `ended` while the player is playing,
\* isPlaying becomes false and currentTime, duration and volume are left as
\* they are; the next toggle (any toggle made while isPlaying is false)
\* calls play() and sets isPlaying to true again.
C27_EndedPausesKeepsTime ==
  /\ [] (fx.event = "ended" => ~isPlaying)
  /\ [][ /\ fx'.event = "ended" =>
             /\ isPlaying /\ ~isPlaying'
             /\ currentTime' = currentTime
             /\ duration' = duration
             /\ volume' = volume
         /\ (fx'.event = "togglePlay" /\ ~isPlaying) =>
             /\ fx'.audio = "play"
             /\ isPlaying'
             /\ currentTime' = currentTime ]_vars

\* C27 witness: playback ended at the end of a two-second audio with the
\* volume at 0.5; the player shows paused and still the same time.
C27_Witness ==
  /\ fx.event = "ended" /\ ~isPlaying /\ ~audioPlaying
  /\ currentTime = 2 /\ duration = 2 /\ volume = 5

----------------------------------------------------------------------------
(* Claims about the voice-conversion page used through its controls,       *)
(* checked under SpecUser                                                  *)

\* C14: from the moment a submission passes handleSubmit's tests until its
\* voiceConversion call settles (result, error payload or rejection), loading
\* is true and the submit button is disabled, so it cannot start another
\* submission; over any sequence of user actions at most one conversion is
\* in flight, and loading is true exactly while one is.
C14_SubmitDisabledWhilePending ==
  /\ Len(vcCalls) <= 1
  /\ loading = (vcCalls # << >>)
  /\ vcCalls # << >> => (submitDisabled /\ ~ENABLED submitControl)

\* C14 witness: a conversion is waiting for its response while a file and a
\* target speaker are selected, so the button is disabled by loading alone.
C14_Witness ==
  /\ Len(vcCalls) = 1 /\ vcCalls[1].stage = "fetching"
  /\ sourceFile.present /\ targetSpeaker = "bob"
  /\ loading /\ submitDisabled

\* The ids of the profiles the form has loaded.
LoadedProfileIds == { profiles[i].id : i \in 1..Len(profiles) }

\* C29: every VC request sent by the form carries a target_speaker that is
\* the id of a profile in the list the form loaded; across every
\* interleaving of the profile fetch completing and the user changing the
\* selection, targetSpeaker is empty or the id of a loaded profile; and the
\* completed profile fetch replaces no selection the user has made (until it
\* completes there is nothing to select but the empty placeholder).
C29_TargetSpeakerIsLoadedProfile ==
  /\ [] ( /\ targetSpeaker \in {""} \cup LoadedProfileIds
          /\ profilesReq = "pending" => (targetSpeaker = "" /\ profiles = << >>)
          /\ \A i \in 1..Len(vcCalls) :
               \E id \in LoadedProfileIds : vcCalls[i].target = JsStr(id)
          /\ \A i \in 1..Len(fx.fetch) :
               fx.fetch[i].url = "http://localhost:8000/api/v1/vc" =>
                 \E id \in LoadedProfileIds :
                   fx.fetch[i].config.body.json.target_speaker = JsStr(id) )
  /\ [][ (profilesReq = "pending" /\ profilesReq' = "done" /\ targetSpeaker # "") =>
           targetSpeaker' = targetSpeaker ]_vars

\* C29 witness: the fetch had selected the first profile, the user changed
\* the selection to the second, and the request carries the second.
C29_Witness ==
  /\ fx.event = "reader.onload" /\ Len(fx.fetch) = 1
  /\ fx.fetch[1].config.body.json.target_speaker = JsStr("bob")
  /\ profiles = << Profile("alice"), Profile("bob") >>
  /\ targetSpeaker = "bob"

\* C24: when no profiles are available in VCForm (the profile fetch failed
\* or returned an empty list), a "default" target speaker can still be
\* selected, so that a submission with a valid file is not blocked for good
\* by the empty profile list: once a file is chosen and nothing is pending,
\* selecting a speaker that enables the submit button is possible.
C24_DefaultSpeakerSelectable ==
  (profilesReq = "done" /\ profiles = << >>) =>
    /\ ENABLED (selectTargetSpeaker /\ targetSpeaker' = "default")
    /\ (sourceFile.present /\ ~loading) =>
         ENABLED (selectTargetSpeaker /\ ~submitDisabled')

\* C25: given that the file read and the HTTP call each end, every
\* submission that passes handleSubmit's tests ends by calling exactly one of
\* onResult and onError exactly once, with loading false after it, whether
\* the outcome is a result, an error payload, a failed request or a failed
\* file read; before it ends the submission calls neither; and loading never
\* stays true for ever.
C25_SubmissionEndsWithOneCallback ==
  /\ [][ /\ Len(vcCalls') < Len(vcCalls) =>
             /\ Len(fx'.onResult) + Len(fx'.onError) = 1
             /\ ~loading'
         /\ (Len(vcCalls') >= Len(vcCalls) /\ vcCalls # << >>) =>
             /\ fx'.onResult = << >>
             /\ fx'.onError = << >>
             /\ loading' ]_vars
  /\ (vcCalls # << >>) ~> (vcCalls = << >>)
  /\ loading ~> ~loading

\* C25 witness: a submission ended in a failed file read, which called
\* onError once, no onResult, and left loading false.
C25_Witness ==
  /\ fx.event = "reader.onerror"
  /\ fx.onError = << JsStr("Voice conversion failed: File read failed") >>
  /\ fx.onResult = << >>
  /\ pageError = JsStr("Voice conversion failed: File read failed")
  /\ ~loading /\ vcCalls = << >>

----------------------------------------------------------------------------
(* Claims about the voice-conversion page and its teardown, checked under  *)
(* SpecTeardown                                                            *)

\* C22: if VCForm is unmounted while its file read or its request is still
\* pending, the outcome is discarded: after the unmount neither onResult nor
\* onError is called (and no state of the torn-down component is set).  The
\* formula states the part about the two callbacks: no step taken after the
\* unmount calls either of them.
C22_OutcomeDiscardedAfterUnmount ==
  ~mounted => (fx.onResult = << >> /\ fx.onError = << >>)

----------------------------------------------------------------------------
(* Claims about overlapping submissions (checked under Spec: handleSubmit   *)
(* run for every submit event) and about error payloads (under SpecUser)   *)

\* C15: when two submissions overlap, then once both have completed the slot
\* holds the outcome of the later-submitted one, whatever order the two
\* responses arrive in.  In particular, when the later-submitted of two calls
\* in flight has just completed and the earlier one completes next, the slot
\* keeps what it holds.
C15_LaterSubmissionWins ==
  [][ ( /\ fx.event \in {"settle", "reader.onerror"}
        /\ fx.call = 2
        /\ Len(vcCalls) = 1
        /\ vcCalls' = << >> )
      => /\ pageResult' = pageResult
         /\ pageError' = pageError ]_vars

\* C16: a response that carries an error field, whatever its value (an empty
\* string included) and whether or not audio_url is there too, is reported
\* through onError and never through onResult, so the slot never shows such
\* a response as a result.
C16_ErrorFieldNeverShownAsResult ==
  /\ \A i \in 1..Len(fx.onResult) : fx.onResult[i].error.kind = "absent"
  /\ pageResult.present => pageResult.value.error.kind = "absent"

----------------------------------------------------------------------------
(* Claims about pure functions, checked under SpecPure                     *)

\* C5: validateFile returns true exactly when the type is one of the five
\* allowed MIME types and the size is at most 50 MB (52428800 bytes, itself
\* accepted; 52428801 rejected); when both fail, the type is what is
\* reported.
C5_ValidateFileExact ==
  (ppc = "done" /\ pin.op = "validateFile") =>
    LET typeOk == pin.file.type \in {"audio/wav", "audio/mp3", "audio/ogg",
                                     "audio/m4a", "audio/flac"}
        sizeOk == pin.file.size <= 52428800
    IN /\ pout.ok = (typeOk /\ sizeOk)
       /\ pout.alerts =
            (IF ~typeOk
               THEN << "Please select a valid audio file (WAV, MP3, OGG, M4A, FLAC)" >>
             ELSE IF ~sizeOk THEN << "File size must be less than 50MB" >>
             ELSE << >>)

\* C5 witness: a WAV file of exactly 50 MB was validated and accepted.
C5_Witness ==
  /\ ppc = "done" /\ pin.op = "validateFile"
  /\ pin.file.type = "audio/wav" /\ pin.file.size = 52428800
  /\ pout.ok /\ pout.alerts = << >>

\* C10: arrayBufferToBase64 is lossless: standard Base64 decoding of its
\* output gives back the original bytes in the original order, for the
\* empty sequence, every single byte 0..255 and longer sequences.
C10_Base64RoundTrip ==
  (ppc = "done" /\ pin.op = "arrayBufferToBase64") =>
    /\ Len(pout.b64) = 4 * ((Len(pin.bytes) + 2) \div 3)
    /\ b64decode(pout.b64) = pin.bytes

\* C10 witness: a sequence with high bytes and a one-byte remainder was
\* encoded.
C10_Witness ==
  /\ ppc = "done" /\ pin.op = "arrayBufferToBase64"
  /\ pin.bytes = << 255, 0, 128, 63 >>
  /\ pout.b64 = << "/", "w", "C", "A", "P", "w", "=", "=" >>

\* The number of slashes a text ends with, and begins with.
RECURSIVE TrailingSlashes(_)
TrailingSlashes(chars) ==
  IF chars # << >> /\ chars[Len(chars)] = "/"
    THEN 1 + TrailingSlashes(SubSeq(chars, 1, Len(chars) - 1)) ELSE 0

RECURSIVE LeadingSlashes(_)
LeadingSlashes(chars) ==
  IF chars # << >> /\ Head(chars) = "/" THEN 1 + LeadingSlashes(Tail(chars)) ELSE 0

\* The base URL with its trailing slashes taken off and the path with its
\* leading slashes taken off: what stands on the two sides of the junction.
BaseStem(chars) == SubSeq(chars, 1, Len(chars) - TrailingSlashes(chars))

PathStem(chars) == SubSeq(chars, LeadingSlashes(chars) + 1, Len(chars))

\* C18 as stated: getAudioUrl(path) is baseUrl followed by path when path
\* begins with "/" and path itself otherwise, baseUrl being the configured
\* base URL less one trailing slash; and the locator resolved for a
\* "/"-prefixed path has exactly one slash between base and path: the base
\* brings no slash of its own to the junction.
C18_ExactlyOneSlash ==
  (ppc = "done" /\ pin.op = "getAudioUrl" /\ pin.path.kind = "string") =>
    LET baseUrl == IF pin.base # << >> /\ pin.base[Len(pin.base)] = "/"
                     THEN SubSeq(pin.base, 1, Len(pin.base) - 1) ELSE pin.base
        path == pin.path.chars
    IN /\ ~pout.url.threw
       /\ pout.url.value = (IF path # << >> /\ path[1] = "/" THEN baseUrl \o path ELSE path)
       /\ (path # << >> /\ path[1] = "/") =>
            pout.url.value = BaseStem(pin.base) \o path

\* C18 as amended: the same result, and the junction holds as many slashes
\* as the configured base has beyond its first trailing one plus those the
\* path begins with; so it holds exactly one exactly when the configured
\* base ends with at most one slash and the path begins with exactly one.
C18_SlashesAtJunction ==
  (ppc = "done" /\ pin.op = "getAudioUrl" /\ pin.path.kind = "string") =>
    LET baseUrl == IF pin.base # << >> /\ pin.base[Len(pin.base)] = "/"
                     THEN SubSeq(pin.base, 1, Len(pin.base) - 1) ELSE pin.base
        path == pin.path.chars
        extra == IF TrailingSlashes(pin.base) > 0 THEN TrailingSlashes(pin.base) - 1 ELSE 0
        junction == [i \in 1..(extra + LeadingSlashes(path)) |-> "/"]
    IN /\ ~pout.url.threw
       /\ pout.url.value = (IF path # << >> /\ path[1] = "/" THEN baseUrl \o path ELSE path)
       /\ (path # << >> /\ path[1] = "/") =>
            /\ pout.url.value = BaseStem(pin.base) \o junction \o PathStem(path)
            /\ (Len(junction) = 1) =
                 (TrailingSlashes(pin.base) <= 1 /\ LeadingSlashes(path) = 1)

\* C18 witness: a base configured with two trailing slashes resolved a
\* "/"-prefixed path to a locator with two slashes at the junction.
C18_Witness ==
  /\ ppc = "done" /\ pin.op = "getAudioUrl"
  /\ pin.base = << "h", "/", "/" >> /\ pin.path = JsText(<< "/", "a" >>)
  /\ pout.url = [threw |-> FALSE, value |-> << "h", "/", "/", "a" >>]

\* C28: the three client-side type validators agree: for every file, the
\* type test of FileUpload.validateFile, helpers.isValidAudioFile and
\* VoiceAPIClient.isValidAudioFile accept the same MIME types, which are
\* audio/wav, audio/mp3, audio/ogg, audio/m4a and audio/flac.
C28_TypeValidatorsAgree ==
  (ppc = "done" /\ pin.op = "isValidAudioFile") =>
    LET allowed == pin.file.type \in {"audio/wav", "audio/mp3", "audio/ogg",
                                      "audio/m4a", "audio/flac"}
    IN /\ pout.ok = allowed
       /\ pout.helpers = allowed
       /\ pout.client = allowed

\* C30: getAudioUrl is idempotent on the download path: for every audio path
\* p the backend returns and every configured base URL,
\* getAudioUrl(getAudioUrl(p)) is getAudioUrl(p), so the locator the player
\* plays (resolved once, by the page) and the locator downloadAudio fetches
\* (resolved a second time) are the same.
C30_GetAudioUrlIdempotent ==
  (ppc = "done" /\ pin.op = "downloadPath") =>
    /\ ~pout.url.threw
    /\ ~pout.fetched.threw
    /\ pout.fetched.value = pout.url.value

----------------------------------------------------------------------------
(* Claims about the voice-conversion page, checked under Spec              *)

\* The validation the claims speak of, written out: an allowed MIME type and
\* at most 50 MB.
AllowedFile(f) ==
  /\ f.type \in {"audio/wav", "audio/mp3", "audio/ogg", "audio/m4a", "audio/flac"}
  /\ f.size <= 52428800

\* C4: whatever the user drops, picks, removes and submits, a request to
\* /api/v1/vc goes out only for a file that passed validation; a file that
\* failed it is never handed to onFileSelect, never becomes sourceFile, and
\* is answered with an alert, with no network call.
C4_OnlyValidatedFilesSubmitted ==
  /\ sourceFile.present => AllowedFile(sourceFile)
  /\ selectedFile = sourceFile
  /\ \A i \in 1..Len(vcCalls) : AllowedFile(vcCalls[i].file)
  /\ \A i \in 1..Len(fx.onFileSelect) :
       fx.onFileSelect[i].present => AllowedFile(fx.onFileSelect[i])
  /\ \A i \in 1..Len(fx.fetch) :
       fx.fetch[i].url = "http://localhost:8000/api/v1/vc" =>
         /\ AllowedFile(fx.file)
         /\ fx.fetch[i].config.body.json.source_audio
              = JsText(arrayBufferToBase64(fx.file.bytes))
  /\ (fx.event \in {"drop", "input"} /\ fx.file.present /\ ~AllowedFile(fx.file)) =>
       /\ Len(fx.alerts) = 1
       /\ fx.onFileSelect = << >>
       /\ fx.fetch = << >>
       /\ sourceFile # fx.file

\* C4 witness: a file one byte over the limit was dropped and answered with
\* the size alert, while the request of an earlier, validated file is in
\* flight.
C4_Witness ==
  /\ fx.event = "drop" /\ fx.file.size = 52428801
  /\ fx.alerts = << "File size must be less than 50MB" >>
  /\ ~sourceFile.present
  /\ Len(vcCalls) = 1 /\ vcCalls[1].stage = "fetching"

\* C8: a submission whose precondition is missing is refused with the
\* message of the first missing one: without a file, 'Please select an audio
\* file' whatever the target speaker; with a file and no target speaker,
\* 'Please select a target speaker'.  The refusal issues no request, starts
\* no call, does not call onResult and leaves loading as it was (false when
\* no call is in flight).
C8_RefusalSignalsFirstMissing ==
  [][ (fx'.event = "submit" /\ (~sourceFile.present \/ targetSpeaker = "")) =>
        /\ fx'.onError =
             << JsStr(IF ~sourceFile.present THEN "Please select an audio file"
                      ELSE "Please select a target speaker") >>
        /\ pageError' = fx'.onError[1]
        /\ fx'.onResult = << >>
        /\ fx'.fetch = << >>
        /\ vcCalls' = vcCalls
        /\ loading' = loading
        /\ (vcCalls = << >> => ~loading') ]_vars

\* C8 witness: handleSubmit ran with neither a file nor a target speaker and
\* reported the missing file.
C8_Witness ==
  /\ fx.event = "submit" /\ ~sourceFile.present /\ targetSpeaker = ""
  /\ fx.onError = << JsStr("Please select an audio file") >>
  /\ ~loading /\ vcCalls = << >>

====
